---- MODULE Spec2Model ----
(***************************************************************************)
(* Model of the go-api-proxy reverse proxy: the whitelist store, the       *)
(* backend client, the token filter handler, the standard proxy handler    *)
(* and the router.                                                         *)
(*                                                                         *)
(* Strings that the program inspects character by character (paths, URLs,  *)
(* error texts) are sequences of one-character strings.  Strings that the  *)
(* program only compares for equality (addresses, header names, methods)   *)
(* are TLA+ strings; TLA+ string equality is byte-for-byte.                *)
(***************************************************************************)
EXTENDS Integers, Sequences, FiniteSets, TLC

VARIABLES
    cfg,          \* config.Config of the running server
    file,         \* contents of the whitelist file on disk
    Addresses,    \* TokenWhitelist.Addresses
    Tokens,       \* TokenWhitelist.Tokens
    loadErr,      \* TRUE iff the LoadFromFile call of NewProxyServer returned an error
    req,          \* the inbound request being answered (NoRequest between requests)
    invoked,      \* handlers run for that request, in order
    backendCalls, \* outbound calls made to the backend for that request
    backend,      \* what the backend did with the outbound call of that request
    resp,         \* the response written for that request
    call,         \* the call made directly on a component, with its result (NoCall if none)
    mu,           \* TokenWhitelist.mu, the sync.RWMutex of the store
    goroutines    \* the goroutines calling the store concurrently: position and locals

vars == <<cfg, file, Addresses, Tokens, loadErr, req, invoked, backendCalls, backend, resp,
          call, mu, goroutines>>

(***************************************************************************)
(* Bounds                                                                  *)
(***************************************************************************)
MaxFileLen == 2      \* longest "addresses" array of a whitelist file
MaxFileTokens == 1   \* longest "tokens" array of a whitelist file
MaxItems == 2        \* longest token list the backend returns
MaxHeaders == 2      \* most header names in a backend response
MaxInboundHeaders == 2  \* most header names in an inbound request
MaxMutations == 2      \* most whitelist mutations during one tokens request

(***************************************************************************)
(* strings package                                                         *)
(***************************************************************************)
HasPrefix(s, prefix) ==
    /\ Len(s) >= Len(prefix)
    /\ SubSeq(s, 1, Len(prefix)) = prefix

HasSuffix(s, suffix) ==
    /\ Len(s) >= Len(suffix)
    /\ SubSeq(s, Len(s) - Len(suffix) + 1, Len(s)) = suffix

TrimSuffix(s, suffix) ==
    IF HasSuffix(s, suffix) THEN SubSeq(s, 1, Len(s) - Len(suffix)) ELSE s

StrContains(s, substr) ==
    \E i \in 0..(Len(s) - Len(substr)) :
        \A j \in 1..Len(substr) : s[i + j] = substr[j]

UpperChars == <<"A","B","C","D","E","F","G","H","I","J","K","L","M","N","O","P","Q","R","S","T","U","V","W","X","Y","Z">>
LowerChars == <<"a","b","c","d","e","f","g","h","i","j","k","l","m","n","o","p","q","r","s","t","u","v","w","x","y","z">>

LowerOf ==
    [c \in {UpperChars[i] : i \in 1..Len(UpperChars)} |->
        LowerChars[CHOOSE i \in 1..Len(UpperChars) : UpperChars[i] = c]]

ToLowerChar(c) == IF c \in DOMAIN LowerOf THEN LowerOf[c] ELSE c

ToLower(s) == [i \in 1..Len(s) |-> ToLowerChar(s[i])]

DigitChars == <<"0","1","2","3","4","5","6","7","8","9">>

RECURSIVE Itoa(_)
Itoa(n) == IF n < 10 THEN <<DigitChars[n + 1]>>
           ELSE Itoa(n \div 10) \o <<DigitChars[(n % 10) + 1]>>

(***************************************************************************)
(* Go slices: a nil slice and an empty slice differ (encoding/json writes  *)
(* null for the first and [] for the second).                              *)
(***************************************************************************)
NilSlice == [nil |-> TRUE, elems |-> <<>>]
MkSlice(s) == [nil |-> FALSE, elems |-> s]
Append1(sl, x) == [nil |-> FALSE, elems |-> Append(sl.elems, x)]

RECURSIVE SubsetsUpTo(_, _)
SubsetsUpTo(S, n) ==
    IF n = 0 THEN {{}}
    ELSE LET smaller == SubsetsUpTo(S, n - 1)
         IN  smaller \cup {s \cup {x} : s \in smaller, x \in S}

RECURSIVE SeqsUpTo(_, _)
SeqsUpTo(S, n) ==
    IF n = 0 THEN {<<>>}
    ELSE LET shorter == SeqsUpTo(S, n - 1)
         IN  shorter \cup {Append(s, x) : s \in {t \in shorter : Len(t) = n - 1}, x \in S}

(***************************************************************************)
(* config                                                                  *)
(***************************************************************************)
DefaultBackendHost == <<"h","t","t","p","s",":","/","/","e","x","p",".","c","o","2","e",".","c","c">>
BackendHosts == {DefaultBackendHost, <<"h","t","t","p",":","/","/","b",".","i","o","/">>}

GetBackendAPIURL(c) == TrimSuffix(c.BackendHost, <<"/">>) \o <<"/","a","p","i","/","v","2">>

(***************************************************************************)
(* models: the whitelist store                                             *)
(***************************************************************************)
FileAddrs == {"0xa", "0xA"}

\* A whitelist file: missing, unreadable, not JSON, or a JSON object whose
\* "tokens" and "addresses" keys are absent/null (nil) or arrays.
FileContents ==
    {[kind |-> k, tokens |-> NilSlice, addresses |-> NilSlice] :
        k \in {"missing", "unreadable", "malformed"}}
    \cup
    {[kind |-> "json", tokens |-> t, addresses |-> a] :
        t \in {NilSlice} \cup {MkSlice(s) : s \in SeqsUpTo(FileAddrs, MaxFileTokens)},
        a \in {NilSlice} \cup {MkSlice(s) : s \in SeqsUpTo(FileAddrs, MaxFileLen)}}

NewTokenWhitelist == [Addresses |-> <<>>, Tokens |-> <<>>]

\* No JSON data or file given.
NoData == [kind |-> "none", tokens |-> NilSlice, addresses |-> NilSlice]

\* LoadFromJSON reading the addresses array first and the tokens array only
\* when there is none.
LoadFromJSONAddressesFirst(tw, data) ==
    IF data.kind # "json"
    THEN [tw |-> tw, err |-> TRUE]
    ELSE IF ~data.addresses.nil
    THEN [tw |-> [Addresses |-> data.addresses.elems,
                  Tokens |-> [i \in 1..Len(data.addresses.elems) |->
                                 [Address |-> data.addresses.elems[i]]]],
          err |-> FALSE]
    ELSE IF ~data.tokens.nil /\ Len(data.tokens.elems) > 0
    THEN [tw |-> [Addresses |-> data.tokens.elems,
                  Tokens |-> [i \in 1..Len(data.tokens.elems) |->
                                 [Address |-> data.tokens.elems[i]]]],
          err |-> FALSE]
    ELSE [tw |-> [Addresses |-> <<>>, Tokens |-> <<>>], err |-> FALSE]

\* LoadFromJSON returns the store after the call and whether it failed.
LoadFromJSON(tw, data) ==
    IF data.kind # "json"
    THEN [tw |-> tw, err |-> TRUE]
    ELSE IF ~data.tokens.nil /\ Len(data.tokens.elems) > 0
    THEN [tw |-> [Addresses |-> data.tokens.elems,
                  Tokens |-> [i \in 1..Len(data.tokens.elems) |->
                                 [Address |-> data.tokens.elems[i]]]],
          err |-> FALSE]
    ELSE IF ~data.addresses.nil
    THEN [tw |-> [Addresses |-> data.addresses.elems,
                  Tokens |-> [i \in 1..Len(data.addresses.elems) |->
                                 [Address |-> data.addresses.elems[i]]]],
          err |-> FALSE]
    ELSE [tw |-> [Addresses |-> <<>>, Tokens |-> <<>>], err |-> FALSE]

\* Contains, comparing addresses without regard to case.
FoldCase(address) == IF address = "0xA" THEN "0xa" ELSE address

ContainsFold(addrs, address) ==
    \E i \in 1..Len(addrs) : FoldCase(addrs[i]) = FoldCase(address)

Contains(addrs, address) ==
    \E i \in 1..Len(addrs) : addrs[i] = address

\* GetTokenInfo: the first entry of tw.Tokens with the address, nil if none.
NilTokenInfo == [isNil |-> TRUE, token |-> [Address |-> ""]]

GetTokenInfo(tokens, address) ==
    IF \E i \in 1..Len(tokens) : tokens[i].Address = address
    THEN [isNil |-> FALSE,
          token |-> tokens[CHOOSE i \in 1..Len(tokens) :
                               /\ tokens[i].Address = address
                               /\ \A j \in 1..(i - 1) : tokens[j].Address # address]]
    ELSE NilTokenInfo

Size(addrs) == Len(addrs)

\* Validate returns TRUE iff it returns an error.
Validate(tw) ==
    \E i \in 1..Len(tw.Addresses) :
        \/ tw.Addresses[i] = ""
        \/ \E j \in 1..(i - 1) : tw.Addresses[j] = tw.Addresses[i]

\* LoadFromFile emptying the store before it reads the file.
LoadFromFileReset(tw, f) ==
    IF f.kind = "missing" THEN [tw |-> tw, err |-> FALSE]
    ELSE IF f.kind = "unreadable" THEN [tw |-> NewTokenWhitelist, err |-> TRUE]
    ELSE LET loaded == LoadFromJSON(NewTokenWhitelist, f)
         IN  IF loaded.err THEN [tw |-> loaded.tw, err |-> TRUE]
             ELSE IF Validate(loaded.tw) THEN [tw |-> loaded.tw, err |-> TRUE]
             ELSE [tw |-> loaded.tw, err |-> FALSE]

LoadFromFile(tw, f) ==
    IF f.kind = "missing" THEN [tw |-> tw, err |-> FALSE]
    ELSE IF f.kind = "unreadable" THEN [tw |-> tw, err |-> TRUE]
    ELSE LET loaded == LoadFromJSON(tw, f)
         IN  IF loaded.err THEN [tw |-> loaded.tw, err |-> TRUE]
             ELSE IF Validate(loaded.tw) THEN [tw |-> loaded.tw, err |-> TRUE]
             ELSE [tw |-> loaded.tw, err |-> FALSE]

\* AddAddress without the scan for an existing entry.
AddAddressUnchecked(tw, address) ==
    IF address = "" THEN [tw |-> tw, err |-> TRUE]
    ELSE [tw |-> [tw EXCEPT !.Addresses = Append(tw.Addresses, address)], err |-> FALSE]

AddAddress(tw, address) ==
    IF address = "" THEN [tw |-> tw, err |-> TRUE]
    ELSE IF \E i \in 1..Len(tw.Addresses) : tw.Addresses[i] = address
    THEN [tw |-> tw, err |-> TRUE]
    ELSE [tw |-> [tw EXCEPT !.Addresses = Append(tw.Addresses, address)], err |-> FALSE]

\* RemoveAddress cuts the first entry equal to address out of the slice.
RemoveAddress(tw, address) ==
    IF \E i \in 1..Len(tw.Addresses) : tw.Addresses[i] = address
    THEN LET i == CHOOSE k \in 1..Len(tw.Addresses) :
                      /\ tw.Addresses[k] = address
                      /\ \A j \in 1..(k - 1) : tw.Addresses[j] # address
         IN  [tw |-> [tw EXCEPT !.Addresses = SubSeq(tw.Addresses, 1, i - 1)
                                               \o SubSeq(tw.Addresses, i + 1, Len(tw.Addresses))],
              ok |-> TRUE]
    ELSE [tw |-> tw, ok |-> FALSE]

Clear(tw) == [tw EXCEPT !.Addresses = <<>>]

\* NewProxyServer: the whitelist is loaded once; a load error is logged and
\* the server is built with whatever the store then holds.
NewProxyServer(f) == LoadFromFile(NewTokenWhitelist, f)

(***************************************************************************)
(* client: errors and their classification                                 *)
(***************************************************************************)
\* A Go error: the types found along its Unwrap chain and its Error() text.
NoError == [isNil |-> TRUE, types |-> {}, text |-> <<>>]
MkError(types, text) == [isNil |-> FALSE, types |-> types, text |-> text]

NetworkErrorText(operation, url, inner) ==
    <<"n","e","t","w","o","r","k"," ","e","r","r","o","r"," ","d","u","r","i","n","g"," ">> \o operation \o <<" ","t","o"," ">> \o url \o <<":"," ">> \o inner

APIErrorText(status, statusCode, url) ==
    <<"A","P","I"," ","e","r","r","o","r",":"," ">> \o status \o <<" ","(">> \o Itoa(statusCode) \o <<")"," ","f","r","o","m"," ">> \o url

networkKeywords ==
    <<<<"n","e","t","w","o","r","k">>, <<"t","i","m","e","o","u","t">>, <<"c","o","n","n","e","c","t","i","o","n">>, <<"r","e","f","u","s","e","d">>, <<"u","n","r","e","a","c","h","a","b","l","e">>,
      <<"n","o"," ","s","u","c","h"," ","h","o","s","t">>, <<"d","n","s">>, <<"d","i","a","l">>, <<"i","/","o"," ","t","i","m","e","o","u","t">>, <<"b","r","o","k","e","n"," ","p","i","p","e">>>>

IsNetworkError(err) ==
    IF err.isNil THEN FALSE
    ELSE \/ "NetworkError" \in err.types
         \/ err.types \cap {"net.OpError", "url.Error", "net.DNSError"} # {}
         \/ LET errStr == ToLower(err.text)
            IN  \E i \in 1..Len(networkKeywords) : StrContains(errStr, networkKeywords[i])

IsAPIError(err) == ~err.isNil /\ "APIError" \in err.types

(***************************************************************************)
(* The backend, as seen through http.Client.Do                             *)
(***************************************************************************)
TokenSet ==
    {[Address |-> "0xa", Name |-> "T1"],
     [Address |-> "0xA", Name |-> "T2"],
     [Address |-> "0xb", Name |-> "T3"]}

NoHeaders == [k \in {} |-> <<>>]
NoBody == [kind |-> "empty", items |-> NilSlice, raw |-> ""]

\* The status line of a response, as http.Response.Status holds it.
StatusLines ==
    {[code |-> 200, status |-> <<"2","0","0"," ","O","K">>],
     [code |-> 404, status |-> <<"4","0","4"," ","N","o","t"," ","F","o","u","n","d">>],
     [code |-> 500, status |-> <<"5","0","0"," ","I","n","t","e","r","n","a","l"," ","S","e","r","v","e","r"," ","E","r","r","o","r">>],
     [code |-> 504, status |-> <<"5","0","4"," ","G","a","t","e","w","a","y"," ","T","i","m","e","o","u","t">>]}

\* The error text of a failed http.Client.Do, without the url.Error prefix.
TransportFailures ==
    {[transport |-> "refused", types |-> {"url.Error", "net.OpError"},
      cause |-> <<"d","i","a","l"," ","t","c","p"," ","1","0",".","0",".","0",".","1",":","8","0",":"," ","c","o","n","n","e","c","t",":"," ","c","o","n","n","e","c","t","i","o","n"," ","r","e","f","u","s","e","d">>],
     [transport |-> "deadline", types |-> {"url.Error"},
      cause |-> <<"c","o","n","t","e","x","t"," ","d","e","a","d","l","i","n","e"," ","e","x","c","e","e","d","e","d">>],
     [transport |-> "canceled", types |-> {"url.Error"},
      cause |-> <<"c","o","n","t","e","x","t"," ","c","a","n","c","e","l","e","d">>]}

\* url.Error.Error(): the operation is the method, its first letter kept in
\* upper case and the rest in lower case.
urlErrorOp(method) ==
    IF method = "GET" THEN <<"G","e","t">> ELSE IF method = "POST" THEN <<"P","o","s","t">> ELSE <<"O","p","t","i","o","n","s">>

urlErrorText(method, url, cause) ==
    urlErrorOp(method) \o <<" ","\"">> \o url \o <<"\"",":"," ">> \o cause

TransportFailure(name) == CHOOSE t \in TransportFailures : t.transport = name

\* The error that ends the reading of a response body when the context of
\* the request is done: ctx.Err(), by the kind of body that carries it.
BodyReadErrors ==
    {[kind |-> "deadline", cause |-> <<"c","o","n","t","e","x","t"," ","d","e","a","d","l","i","n","e"," ","e","x","c","e","e","d","e","d">>],
     [kind |-> "canceled", cause |-> <<"c","o","n","t","e","x","t"," ","c","a","n","c","e","l","e","d">>]}

BodyReadError(kind) == CHOOSE e \in BodyReadErrors : e.kind = kind

BodyReadFails(bk) == bk.body.kind \in {e.kind : e \in BodyReadErrors}

NoBackend ==
    [transport |-> "none", code |-> 0, status |-> <<>>, headers |-> NoHeaders, body |-> NoBody]

\* Bodies of a 200 answer to the token fetch.
TokenBodies ==
    {[kind |-> k, items |-> NilSlice, raw |-> ""] :
        k \in {"empty", "garbage", "truncated", "mismatch"}}
    \cup {[kind |-> "json", items |-> NilSlice, raw |-> ""]}
    \cup {[kind |-> "json", items |-> MkSlice(s), raw |-> ""] : s \in SeqsUpTo(TokenSet, MaxItems)}

TokenBackends ==
    {[transport |-> t.transport, code |-> 0, status |-> <<>>, headers |-> NoHeaders,
      body |-> NoBody] : t \in TransportFailures}
    \cup
    {[transport |-> "ok", code |-> sl.code, status |-> sl.status, headers |-> NoHeaders,
      body |-> NoBody] : sl \in {l \in StatusLines : l.code # 200}}
    \cup
    {[transport |-> "ok", code |-> 200, status |-> <<"2","0","0"," ","O","K">>, headers |-> NoHeaders,
      body |-> b] : b \in TokenBodies}

(***************************************************************************)
(* client: GetTokens                                                       *)
(***************************************************************************)
\* The error text of encoding/json for a body it cannot decode.
jsonUnmarshalError(kind) ==
    IF kind = "garbage" THEN <<"i","n","v","a","l","i","d"," ","c","h","a","r","a","c","t","e","r"," ","'","c","'"," ","l","o","o","k","i","n","g"," ","f","o","r"," ","b","e","g","i","n","n","i","n","g"," ","o","f"," ","v","a","l","u","e">>
    ELSE IF kind = "truncated" THEN <<"u","n","e","x","p","e","c","t","e","d"," ","e","n","d"," ","o","f"," ","J","S","O","N"," ","i","n","p","u","t">>
    ELSE <<"j","s","o","n",":"," ","c","a","n","n","o","t"," ","u","n","m","a","r","s","h","a","l"," ","s","t","r","i","n","g"," ","i","n","t","o"," ","G","o"," ","s","t","r","u","c","t"," ","f","i","e","l","d"," ","T","o","k","e","n","R","e","s","p","o","n","s","e",".","i","t","e","m","s"," ","o","f"," ","t","y","p","e"," ","[","]","m","o","d","e","l","s",".","T","o","k","e","n">>

NilTokenResponse == [isNil |-> TRUE, Items |-> NilSlice]

parseJSON(body) ==
    IF body.kind = "empty"
    THEN [v |-> NilTokenResponse, err |-> MkError({}, <<"e","m","p","t","y"," ","r","e","s","p","o","n","s","e"," ","b","o","d","y">>)]
    ELSE IF body.kind # "json"
    THEN [v |-> NilTokenResponse,
          err |-> MkError({"json.Error"}, <<"i","n","v","a","l","i","d"," ","J","S","O","N",":"," ">> \o jsonUnmarshalError(body.kind))]
    ELSE [v |-> [isNil |-> FALSE, Items |-> body.items], err |-> NoError]

GetTokens(c, bk) ==
    LET targetURL == GetBackendAPIURL(c) \o <<"/","t","o","k","e","n","s">>
        call1 == [method |-> "GET", url |-> targetURL]
    IN  IF bk.transport # "ok"
        THEN LET t == TransportFailure(bk.transport)
             IN  [resp |-> NilTokenResponse, call |-> call1,
                  err |-> MkError({"NetworkError"} \cup t.types,
                                  NetworkErrorText(<<"g","e","t","_","t","o","k","e","n","s">>, targetURL,
                                      urlErrorText("GET", targetURL, t.cause)))]
        ELSE IF bk.code # 200
        THEN [resp |-> NilTokenResponse, call |-> call1,
              err |-> MkError({"APIError"}, APIErrorText(bk.status, bk.code, targetURL))]
        ELSE IF BodyReadFails(bk)
        THEN [resp |-> NilTokenResponse, call |-> call1,
              err |-> MkError({}, <<"f","a","i","l","e","d"," ","t","o"," ","r","e","a","d"," ","r","e","s","p","o","n","s","e"," ","b","o","d","y",":"," ">>
                                  \o BodyReadError(bk.body.kind).cause)]
        ELSE LET parsed == parseJSON(bk.body)
             IN  IF ~parsed.err.isNil
                 THEN [resp |-> NilTokenResponse, call |-> call1,
                       err |-> MkError(parsed.err.types,
                                       <<"f","a","i","l","e","d"," ","t","o"," ","p","a","r","s","e"," ","t","o","k","e","n","s"," ","r","e","s","p","o","n","s","e",":"," ">> \o parsed.err.text)]
                 ELSE [resp |-> parsed.v, call |-> call1, err |-> NoError]

(***************************************************************************)
(* middleware: the token filter handler                                    *)
(***************************************************************************)
SetHeader(h, key, value) ==
    [k \in DOMAIN h \cup {key} |-> IF k = key THEN <<value>> ELSE h[k]]

NoResponseBody ==
    [kind |-> "none", itemsNull |-> FALSE, items |-> <<>>, error |-> "", message |-> <<>>,
     text |-> <<>>]

\* json.NewEncoder(w).Encode of a TokenResponse: a nil Items slice is written as null.
EncodeTokenResponse(r) ==
    [NoResponseBody EXCEPT !.kind = "tokens", !.itemsNull = r.Items.nil, !.items = r.Items.elems]

RECURSIVE filterLoop(_, _, _, _)
filterLoop(items, addrs, i, filteredTokens) ==
    IF i > Len(items) THEN filteredTokens
    ELSE filterLoop(items, addrs, i + 1,
                    IF Contains(addrs, items[i].Address)
                    THEN Append1(filteredTokens, items[i])
                    ELSE filteredTokens)

\* filterTokens without the empty-whitelist passthrough.
filterTokensAlways(response, addrs) ==
    IF response.isNil \/ Len(response.Items.elems) = 0
    THEN [isNil |-> FALSE, Items |-> MkSlice(<<>>)]
    ELSE [isNil |-> FALSE, Items |-> filterLoop(response.Items.elems, addrs, 1, NilSlice)]

filterTokens(response, addrs) ==
    IF response.isNil \/ Len(response.Items.elems) = 0
    THEN [isNil |-> FALSE, Items |-> MkSlice(<<>>)]
    ELSE IF Size(addrs) = 0
    THEN response
    ELSE [isNil |-> FALSE, Items |-> filterLoop(response.Items.elems, addrs, 1, NilSlice)]

writeErrorResponse(h, statusCode, message, detail) ==
    [status |-> statusCode,
     headers |-> SetHeader(h, "Content-Type", "application/json"),
     body |-> [NoResponseBody EXCEPT !.kind = "error", !.error = message, !.message = detail]]

\* handleError answering every error as an internal error.
TokenHandleErrorInternal(h, err) ==
    writeErrorResponse(h, 500, "Internal server error", err.text)

\* handleError answering every error with 502.
TokenHandleErrorGateway(h, err) ==
    IF IsNetworkError(err)
    THEN writeErrorResponse(h, 502, "Backend API unreachable", err.text)
    ELSE writeErrorResponse(h, 502, "Backend API error", err.text)

TokenHandleError(h, err) ==
    IF IsNetworkError(err)
    THEN writeErrorResponse(h, 502, "Backend API unreachable", err.text)
    ELSE IF IsAPIError(err)
    THEN writeErrorResponse(h, 502, "Backend API error", err.text)
    ELSE writeErrorResponse(h, 500, "Internal server error", err.text)

\* A handler that panics: net/http recovers, logs the panic and closes the
\* connection; the caller gets no status line, no header and no body.
Panicked == [status |-> 0, headers |-> NoHeaders,
             body |-> [NoResponseBody EXCEPT !.kind = "panic"]]

\* TokenFilterHandler.ServeHTTP from the return of GetTokens on:
\* len(tokenResponse.Items) is evaluated for the log before filterTokens runs.
TokenFilterRespond(h1, tokenResponse, err, addrs) ==
    IF ~err.isNil
    THEN TokenHandleError(h1, err)
    ELSE IF tokenResponse.isNil
    THEN Panicked
    ELSE [status |-> 200, headers |-> h1,
          body |-> EncodeTokenResponse(filterTokens(tokenResponse, addrs))]

\* TokenFilterHandler.ServeHTTP: the response and the outbound calls.
TokenFilterServeHTTP(h, c, addrs, bk) ==
    LET h1 == SetHeader(h, "Content-Type", "application/json")
        fetched == GetTokens(c, bk)
    IN  [resp |-> TokenFilterRespond(h1, fetched.resp, fetched.err, addrs),
         calls |-> <<fetched.call>>]

(***************************************************************************)
(* client: ProxyRequest                                                    *)
(***************************************************************************)
\* The error of io.ReadAll on the body of a request whose sender went away.
ReadAllError == <<"u","n","e","x","p","e","c","t","e","d"," ","E","O","F">>

\* ProxyRequest treating a status other than 200 as an API error, as GetTokens does.
ProxyRequestChecked(c, originalReq, endpoint, bk) ==
    LET targetURL == GetBackendAPIURL(c) \o endpoint
        call1 == [method |-> originalReq.method, url |-> targetURL]
    IN  IF originalReq.body = "unreadable"
        THEN [ok |-> FALSE, calls |-> <<>>,
              err |-> MkError({}, <<"f","a","i","l","e","d"," ","t","o"," ","r","e","a","d"," ","r","e","q","u","e","s","t"," ","b","o","d","y",":"," ">> \o ReadAllError)]
        ELSE IF bk.transport # "ok"
        THEN LET t == TransportFailure(bk.transport)
             IN  [ok |-> FALSE, calls |-> <<call1>>,
                  err |-> MkError({"NetworkError"} \cup t.types,
                                  NetworkErrorText(<<"b","a","c","k","e","n","d","_","r","e","q","u","e","s","t">>, targetURL,
                                      urlErrorText(originalReq.method, targetURL, t.cause)))]
        ELSE IF bk.code # 200
        THEN [ok |-> FALSE, calls |-> <<call1>>,
              err |-> MkError({"APIError"}, APIErrorText(bk.status, bk.code, targetURL))]
        ELSE [ok |-> TRUE, calls |-> <<call1>>, err |-> NoError]

ProxyRequest(c, originalReq, endpoint, bk) ==
    LET targetURL == GetBackendAPIURL(c) \o endpoint
        call1 == [method |-> originalReq.method, url |-> targetURL]
    IN  IF originalReq.body = "unreadable"
        THEN [ok |-> FALSE, calls |-> <<>>,
              err |-> MkError({}, <<"f","a","i","l","e","d"," ","t","o"," ","r","e","a","d"," ","r","e","q","u","e","s","t"," ","b","o","d","y",":"," ">> \o ReadAllError)]
        ELSE IF bk.transport # "ok"
        THEN LET t == TransportFailure(bk.transport)
             IN  [ok |-> FALSE, calls |-> <<call1>>,
                  err |-> MkError({"NetworkError"} \cup t.types,
                                  NetworkErrorText(<<"b","a","c","k","e","n","d","_","r","e","q","u","e","s","t">>, targetURL,
                                      urlErrorText(originalReq.method, targetURL, t.cause)))]
        ELSE [ok |-> TRUE, calls |-> <<call1>>, err |-> NoError]

(***************************************************************************)
(* middleware: the standard proxy handler                                  *)
(***************************************************************************)
hopByHopHeaders ==
    <<"Connection", "Keep-Alive", "Proxy-Authenticate", "Proxy-Authorization",
      "Te", "Trailers", "Transfer-Encoding", "Upgrade">>

corsHeaders ==
    <<"Access-Control-Allow-Origin", "Access-Control-Allow-Methods",
      "Access-Control-Allow-Headers", "Access-Control-Allow-Credentials",
      "Access-Control-Expose-Headers", "Access-Control-Max-Age",
      "Access-Control-Request-Method", "Access-Control-Request-Headers">>

isHopByHopHeader(header) ==
    \E i \in 1..Len(hopByHopHeaders) : header = hopByHopHeaders[i]

isCORSHeader(header) ==
    \E i \in 1..Len(corsHeaders) : header = corsHeaders[i]

\* copyHeaders using dst.Set: only the last value of a header survives.
copyHeadersSet(src, dst) ==
    LET copied == {k \in DOMAIN src : ~isHopByHopHeader(k) /\ ~isCORSHeader(k)}
    IN  [k \in DOMAIN dst \cup copied |->
            IF k \in copied THEN <<src[k][Len(src[k])]>> ELSE dst[k]]

\* dst.Add(key, value) for every value of every header of src that is not skipped.
copyHeaders(src, dst) ==
    LET copied == {k \in DOMAIN src : ~isHopByHopHeader(k) /\ ~isCORSHeader(k)}
    IN  [k \in DOMAIN dst \cup copied |->
            (IF k \in DOMAIN dst THEN dst[k] ELSE <<>>)
            \o (IF k \in copied THEN src[k] ELSE <<>>)]

\* http.Error: a plain-text body, the message followed by a newline.
httpError(h, error, code) ==
    LET h1 == [k \in DOMAIN h \ {"Content-Length"} |-> h[k]]
        h2 == SetHeader(h1, "Content-Type", "text/plain; charset=utf-8")
        h3 == SetHeader(h2, "X-Content-Type-Options", "nosniff")
    IN  [status |-> code, headers |-> h3,
         body |-> [NoResponseBody EXCEPT !.kind = "text", !.text = <<error, "\n">>]]

ProxyHandleError(h, err) ==
    IF IsNetworkError(err)
    THEN httpError(h, "Bad Gateway: Backend API unreachable", 502)
    ELSE IF IsAPIError(err)
    THEN httpError(h, "Bad Gateway: Backend API error", 502)
    ELSE httpError(h, "Internal Server Error", 500)

\* ServeHTTP calling ProxyRequest a second time when the first call failed.
StandardProxyServeHTTPRetrying(h, c, r, bk) ==
    LET endpoint == IF r.query # <<>> THEN r.path \o <<"?">> \o r.query ELSE r.path
        proxied == ProxyRequest(c, r, endpoint, bk)
    IN  IF ~proxied.ok
        THEN [resp |-> ProxyHandleError(h, proxied.err),
              calls |-> proxied.calls \o proxied.calls]
        ELSE [resp |-> [status |-> bk.code,
                        headers |-> copyHeaders(bk.headers, h),
                        body |-> [NoResponseBody EXCEPT
                                      !.kind = IF BodyReadFails(bk) THEN "partial" ELSE "raw",
                                      !.text = <<bk.body.raw>>]],
              calls |-> proxied.calls]

\* StandardProxyHandler.ServeHTTP: the response and the outbound calls.
StandardProxyServeHTTP(h, c, r, bk) ==
    LET endpoint == IF r.query # <<>> THEN r.path \o <<"?">> \o r.query ELSE r.path
        proxied == ProxyRequest(c, r, endpoint, bk)
    IN  IF ~proxied.ok
        THEN [resp |-> ProxyHandleError(h, proxied.err), calls |-> proxied.calls]
        ELSE [resp |-> [status |-> bk.code,
                        headers |-> copyHeaders(bk.headers, h),
                        body |-> [NoResponseBody EXCEPT
                                      !.kind = IF BodyReadFails(bk) THEN "partial" ELSE "raw",
                                      !.text = <<bk.body.raw>>]],
              calls |-> proxied.calls]

(***************************************************************************)
(* middleware: CORS                                                        *)
(***************************************************************************)
\* setCORSHeaders for a request without Origin and without
\* Access-Control-Request-Headers.
setCORSHeaders(h) ==
    LET h1 == SetHeader(h, "Access-Control-Allow-Origin", "*")
        h2 == SetHeader(h1, "Access-Control-Allow-Credentials", "true")
        h3 == SetHeader(h2, "Access-Control-Allow-Methods",
                        "GET, POST, PUT, DELETE, OPTIONS, HEAD, PATCH")
        h4 == SetHeader(h3, "Access-Control-Allow-Headers",
                        "Accept, Accept-Language, Content-Type, Content-Language, Origin, Authorization, X-Requested-With, X-HTTP-Method-Override, Cache-Control, Pragma")
        h5 == SetHeader(h4, "Access-Control-Expose-Headers",
                        "Content-Length, Content-Type, Date, Server, X-Request-ID, Cache-Control, Etag, Last-Modified")
    IN  SetHeader(h5, "Access-Control-Max-Age", "86400")

(***************************************************************************)
(* main: the router                                                        *)
(***************************************************************************)
TokensPath == <<"/","a","p","i","/","v","2","/","t","o","k","e","n","s">>
HealthPath == <<"/","h","e","a","l","t","h">>

\* isTokensEndpoint matching every path under the tokens path.
isTokensEndpointPrefix(path) ==
    HasPrefix(path, TokensPath)

isTokensEndpoint(path) ==
    LET normalizedPath == TrimSuffix(path, <<"/">>)
    IN  normalizedPath = TokensPath \/ HasPrefix(path, <<"/","a","p","i","/","v","2","/","t","o","k","e","n","s","?">>)

routeHandler(h, c, addrs, r, bk) ==
    IF isTokensEndpoint(r.path)
    THEN [out |-> TokenFilterServeHTTP(h, c, addrs, bk), handler |-> "tokenHandler"]
    ELSE [out |-> StandardProxyServeHTTP(h, c, r, bk), handler |-> "standardHandler"]

healthCheckHandler(h) ==
    [status |-> 200,
     headers |-> SetHeader(h, "Content-Type", "application/json"),
     body |-> [NoResponseBody EXCEPT !.kind = "health"]]

(***************************************************************************)
(* Inbound requests                                                        *)
(***************************************************************************)
Methods == {"GET", "POST", "OPTIONS"}
Queries == {<<>>, <<"l","i","m","i","t","=","1","0">>}

FilterPaths == {<<"/","a","p","i","/","v","2","/","t","o","k","e","n","s">>, <<"/","a","p","i","/","v","2","/","t","o","k","e","n","s","/","1","2","3">>}

AllPaths ==
    FilterPaths \cup
    {<<"/","a","p","i","/","v","2","/","t","o","k","e","n","s","/">>, <<"/","a","p","i","/","v","2","/","t","o","k","e","n","s","?","l","i","m","i","t","=","1","0">>,
     <<>>, <<"/">>, <<"/","t","o","k","e","n","s">>, <<"/","a","p","i","/","v","1","/","t","o","k","e","n","s">>, <<"/","a","p","i","/","v","2","/","t","o","k","e","n","s","/","/">>, <<"/","a","p","i","/","v","2","/","t","o","k","e","n","s","X">>,
     <<"/","a","p","i","/","v","2","/","a","c","c","o","u","n","t","s","/","x","y","z">>, <<"/","h","e","a","l","t","h">>}

BackendValues == {"b1", "b2"}

\* The values the backend gives to a response header.
BackendHeaderValues(name) ==
    IF name \in {"Set-Cookie", "Custom-Header"} THEN <<"b1", "b2">> ELSE <<"b1">>

BackendHeaderNames ==
    {hopByHopHeaders[i] : i \in 1..Len(hopByHopHeaders)}
    \cup {corsHeaders[i] : i \in 1..Len(corsHeaders)}
    \cup {"Content-Type", "Set-Cookie", "Custom-Header"}

BackendHeaderSets ==
    {[k \in names |-> BackendHeaderValues(k)] :
        names \in SubsetsUpTo(BackendHeaderNames, MaxHeaders)}

\* Bodies of the backend's answer to a proxied request.
ProxyBodies == {"", "backend body"}

ProxyBackends ==
    {[transport |-> t.transport, code |-> 0, status |-> <<>>, headers |-> NoHeaders,
      body |-> NoBody] : t \in TransportFailures}
    \cup
    {[transport |-> "ok", code |-> sl.code, status |-> sl.status, headers |-> hs,
      body |-> [kind |-> "raw", items |-> NilSlice, raw |-> "backend body"]] :
        sl \in {l \in StatusLines : l.code \in {200, 404}}, hs \in BackendHeaderSets}
    \cup
    {[transport |-> "ok", code |-> sl.code, status |-> sl.status, headers |-> NoHeaders,
      body |-> [kind |-> "raw", items |-> NilSlice, raw |-> b]] :
        sl \in StatusLines, b \in ProxyBodies}

PlainProxyBackends == {bk \in ProxyBackends : bk.headers = NoHeaders}

NoRequest == [method |-> "", path |-> <<>>, query |-> <<>>, body |-> ""]
NoResponse == [status |-> 0, headers |-> NoHeaders, body |-> NoResponseBody]

\* No call made directly on the store or on a handler.
NoCall == [op |-> "none"]

\* The zero sync.RWMutex: no writer holds or awaits it, no reader holds it.
NewRWMutex == [w |-> "", held |-> FALSE, readers |-> {}]

NoGoroutines == [g \in {} |-> 0]

(***************************************************************************)
(* The server                                                              *)
(***************************************************************************)
TypeOK ==
    /\ cfg.BackendHost \in BackendHosts
    /\ file \in FileContents
    /\ loadErr \in BOOLEAN
    /\ req.method \in Methods \cup {""}
    /\ Len(invoked) <= 3
    /\ Len(backendCalls) <= 1

StartedWith(hosts, files, callers) ==
    /\ cfg \in {[BackendHost |-> host] : host \in hosts}
    /\ file \in files
    /\ LET loaded == NewProxyServer(file)
       IN  /\ Addresses = loaded.tw.Addresses
           /\ Tokens = loaded.tw.Tokens
           /\ loadErr = loaded.err
    /\ req = NoRequest
    /\ invoked = <<>>
    /\ backendCalls = <<>>
    /\ backend = NoBackend
    /\ resp = NoResponse
    /\ call = NoCall
    /\ mu = NewRWMutex
    /\ goroutines = callers

Started(hosts, files) == StartedWith(hosts, files, NoGoroutines)

Init == Started({DefaultBackendHost}, FileContents)

\* The whitelist file is edited while the server runs.
FileChange ==
    /\ req = NoRequest
    /\ \E f \in FileContents \ {file} : file' = f
    /\ UNCHANGED <<cfg, Addresses, Tokens, loadErr, req, invoked, backendCalls, backend, resp>>
    /\ UNCHANGED <<call, mu, goroutines>>

\* A CORSHandler that takes no request for a preflight request.
isPreflightNever(m) == FALSE

\* CORSHandler.ServeHTTP answers a preflight request itself.
isPreflight(m) == m = "OPTIONS"

\* One inbound request, from the mux through CORSHandler.ServeHTTP to the
\* handler that answers it.
ServeHTTP(m, p, q, b, bk) ==
    LET r == [method |-> m, path |-> p, query |-> q, body |-> b]
        h == setCORSHeaders(NoHeaders)
    IN  /\ req' = r
        /\ IF isPreflight(m)
           THEN /\ resp' = [status |-> 200, headers |-> h, body |-> NoResponseBody]
                /\ invoked' = <<"CORSHandler">>
                /\ backendCalls' = <<>>
                /\ backend' = NoBackend
           ELSE IF p = HealthPath
           THEN /\ resp' = healthCheckHandler(h)
                /\ invoked' = <<"CORSHandler", "healthCheckHandler">>
                /\ backendCalls' = <<>>
                /\ backend' = NoBackend
           ELSE LET routed == routeHandler(h, cfg, Addresses, r, bk)
                IN  /\ resp' = routed.out.resp
                    /\ invoked' = <<"CORSHandler", "routeHandler", routed.handler>>
                    /\ backendCalls' = routed.out.calls
                    /\ backend' = bk
        /\ UNCHANGED <<cfg, file, Addresses, Tokens, loadErr, call, mu, goroutines>>

\* The handler has returned and the response is sent: the request, its
\* response writer and its context are dropped.
Finish ==
    /\ req # NoRequest
    /\ req' = NoRequest
    /\ invoked' = <<>>
    /\ backendCalls' = <<>>
    /\ backend' = NoBackend
    /\ resp' = NoResponse
    /\ call' = NoCall
    /\ UNCHANGED <<cfg, file, Addresses, Tokens, loadErr, mu, goroutines>>

\* What reading the body of an inbound request gives: a request without a
\* body carries http.NoBody, which reads as empty; the body of a POST may end
\* before its announced length.
Bodies(m) == IF m = "POST" THEN {"readable", "unreadable"} ELSE {"readable"}

\* The answers the backend may give to the call a request leads to.
BackendsFor(m, p, b, tokenBackends, proxyBackends) ==
    IF isPreflight(m) \/ p = HealthPath THEN {NoBackend}
    ELSE IF isTokensEndpoint(p) THEN tokenBackends
    ELSE IF b = "unreadable" THEN {NoBackend}
    ELSE proxyBackends

Request(methods, paths, queries, tokenBackends, proxyBackends) ==
    /\ req = NoRequest
    /\ \E m \in methods, p \in paths, q \in queries :
           \E b \in Bodies(m) :
               \E bk \in BackendsFor(m, p, b, tokenBackends, proxyBackends) :
                   ServeHTTP(m, p, q, b, bk)

\* Requests without a query for the tokens path and for one path below it.
TokensRequest == Request({"GET"}, FilterPaths, {<<>>}, TokenBackends, PlainProxyBackends)

Next == FileChange \/ TokensRequest \/ Finish

Spec == Init /\ [][Next]_vars

\* The server started without a whitelist file, serving any request.
InitProxy == Started(BackendHosts, {f \in FileContents : f.kind = "missing"})

AnyRequest == Request(Methods, AllPaths, Queries, TokenBackends, ProxyBackends)

NextProxy == AnyRequest \/ Finish

SpecProxy == InitProxy /\ [][NextProxy]_vars

(***************************************************************************)
(* Requests whose context is done before the handler has answered          *)
(***************************************************************************)
\* The context is done before or during c.client.Do, which returns its error.
ContextDoFailures == {"deadline", "canceled"}

\* The parts of a body received when the context is done.
ReceivedParts == {"", "backend"}

\* The token fetch of a request whose context is done: in Do, or after the
\* 200 status line arrived, while io.ReadAll reads the body.
CanceledTokenBackends ==
    {bk \in TokenBackends : bk.transport \in ContextDoFailures}
    \cup
    {[transport |-> "ok", code |-> 200, status |-> <<"2","0","0"," ","O","K">>, headers |-> NoHeaders,
      body |-> [kind |-> e.kind, items |-> NilSlice, raw |-> part]] :
        e \in BodyReadErrors, part \in ReceivedParts}

\* The proxied call of a request whose context is done: in Do, or after
\* ProxyRequest returned the response, while io.Copy streams the body.
CanceledProxyBackends ==
    {bk \in ProxyBackends : bk.transport \in ContextDoFailures}
    \cup
    {[transport |-> "ok", code |-> sl.code, status |-> sl.status, headers |-> NoHeaders,
      body |-> [kind |-> e.kind, items |-> NilSlice, raw |-> part]] :
        sl \in {l \in StatusLines : l.code \in {200, 404}},
        e \in BodyReadErrors, part \in ReceivedParts}

CanceledRequest ==
    Request({"GET", "POST"}, AllPaths, Queries, CanceledTokenBackends, CanceledProxyBackends)

NextCancel == CanceledRequest \/ Finish

SpecCancel == InitProxy /\ [][NextCancel]_vars

(***************************************************************************)
(* The token filter handler on its own, given any HTTPClientInterface      *)
(***************************************************************************)
\* What an implementation of HTTPClientInterface.GetTokens returns: a token
\* list (its Items nil, empty or not), a nil list without error, an error.
TokenClientResults ==
    {[resp |-> [isNil |-> FALSE, Items |-> items], err |-> NoError] :
        items \in {NilSlice} \cup {MkSlice(s) : s \in SeqsUpTo(TokenSet, MaxItems)}}
    \cup
    {[resp |-> NilTokenResponse, err |-> NoError]}
    \cup
    {[resp |-> NilTokenResponse, err |-> e] :
        e \in {MkError({}, <<"s","o","m","e"," ","g","e","n","e","r","i","c"," ","e","r","r","o","r">>),
               MkError({"NetworkError"}, <<"n","e","t","w","o","r","k"," ","e","r","r","o","r"," ","d","u","r","i","n","g"," ","g","e","t","_","t","o","k","e","n","s">>)}}

\* TokenFilterHandler.ServeHTTP called with a client whose GetTokens returns
\* the result given.
TokenClientReturns(result) ==
    /\ req = NoRequest
    /\ req' = [method |-> "GET", path |-> TokensPath, query |-> <<>>, body |-> "readable"]
    /\ call' = [op |-> "GetTokens", resp |-> result.resp, err |-> result.err]
    /\ resp' = TokenFilterRespond(SetHeader(NoHeaders, "Content-Type", "application/json"),
                                  result.resp, result.err, Addresses)
    /\ invoked' = <<"tokenHandler">>
    /\ backendCalls' = <<>>
    /\ backend' = NoBackend
    /\ UNCHANGED <<cfg, file, Addresses, Tokens, loadErr, mu, goroutines>>

TokenFetch == \E result \in TokenClientResults : TokenClientReturns(result)

NextTokenHandler == TokenFetch \/ Finish

SpecTokenHandler == Init /\ [][NextTokenHandler]_vars

(***************************************************************************)
(* The standard proxy handler on its own, given any ProxyClientInterface   *)
(***************************************************************************)
\* The URLs a client reports in its errors.
ClientErrorURLs ==
    {GetBackendAPIURL([BackendHost |-> host]) \o p : host \in BackendHosts, p \in AllPaths}

\* The errors an implementation of ProxyClientInterface returns: the
\* NetworkError of a failed Do, an APIError, and errors of neither type
\* (the request body could not be read, the backend request not be built).
ClientErrors ==
    {MkError({"NetworkError"} \cup t.types,
             NetworkErrorText(<<"b","a","c","k","e","n","d","_","r","e","q","u","e","s","t">>, url, urlErrorText(m, url, t.cause))) :
        t \in TransportFailures, url \in ClientErrorURLs, m \in {"GET", "POST"}}
    \cup
    {MkError({"APIError"}, APIErrorText(sl.status, sl.code, url)) :
        sl \in {l \in StatusLines : l.code # 200}, url \in ClientErrorURLs}
    \cup
    {MkError({}, text) :
        text \in {<<"s","o","m","e"," ","g","e","n","e","r","i","c"," ","e","r","r","o","r">>,
                  <<"f","a","i","l","e","d"," ","t","o"," ","r","e","a","d"," ","r","e","q","u","e","s","t"," ","b","o","d","y",":"," ","u","n","e","x","p","e","c","t","e","d"," ","E","O","F">>,
                  <<"f","a","i","l","e","d"," ","t","o"," ","c","r","e","a","t","e"," ","b","a","c","k","e","n","d"," ","r","e","q","u","e","s","t",":"," ","p","a","r","s","e"," ","\"","h","t","t","p","s",":","/","/","e","x","p",".","c","o","2","e",".","c","c","/","a","p","i","/","v","2","/","a","%","z","z","\"",":"," ","i","n","v","a","l","i","d"," ","U","R","L"," ","e","s","c","a","p","e"," ","\"","%","z","z","\"">>}}

\* StandardProxyHandler.ServeHTTP called with a client whose ProxyRequest
\* returns the error err.
ProxyClientError(m, p, q, err) ==
    /\ req = NoRequest
    /\ req' = [method |-> m, path |-> p, query |-> q, body |-> "readable"]
    /\ call' = [op |-> "ProxyRequest", err |-> err]
    /\ resp' = ProxyHandleError(NoHeaders, err)
    /\ invoked' = <<"standardHandler">>
    /\ backendCalls' = <<>>
    /\ backend' = NoBackend
    /\ UNCHANGED <<cfg, file, Addresses, Tokens, loadErr, mu, goroutines>>

ClientFailure ==
    \E m \in {"GET", "POST"}, p \in {<<"/","a","p","i","/","v","2","/","u","s","e","r","s">>}, q \in Queries, err \in ClientErrors :
        ProxyClientError(m, p, q, err)

NextHandler == ClientFailure \/ Finish

SpecHandler == InitProxy /\ [][NextHandler]_vars

(***************************************************************************)
(* The whitelist store called directly, one call at a time                 *)
(***************************************************************************)
\* The addresses given to AddAddress and RemoveAddress.
AddressArgs == {"", "0xa", "0xA", "0xb"}

\* The JSON data given to LoadFromJSON: well-formed objects and bytes that
\* do not decode.
JSONData == {f \in FileContents : f.kind \in {"json", "malformed"}}

StoreCall(op, address, data, after, err, ok) ==
    /\ call = NoCall
    /\ call' = [op |-> op, address |-> address, data |-> data,
                before |-> [Addresses |-> Addresses, Tokens |-> Tokens],
                err |-> err, ok |-> ok]
    /\ Addresses' = after.Addresses
    /\ Tokens' = after.Tokens
    /\ UNCHANGED <<cfg, file, loadErr, req, invoked, backendCalls, backend, resp,
                   mu, goroutines>>

\* LoadFromFile on a path where the file f is found.
StoreLoadFromFile ==
    \E f \in FileContents :
        LET out == LoadFromFile([Addresses |-> Addresses, Tokens |-> Tokens], f)
        IN  StoreCall("LoadFromFile", "", f, out.tw, out.err, ~out.err)

StoreLoadFromJSON ==
    \E data \in JSONData :
        LET out == LoadFromJSON([Addresses |-> Addresses, Tokens |-> Tokens], data)
        IN  StoreCall("LoadFromJSON", "", data, out.tw, out.err, ~out.err)

StoreAddAddress ==
    \E a \in AddressArgs :
        LET out == AddAddress([Addresses |-> Addresses, Tokens |-> Tokens], a)
        IN  StoreCall("AddAddress", a, NoData, out.tw, out.err, ~out.err)

StoreRemoveAddress ==
    \E a \in AddressArgs :
        LET out == RemoveAddress([Addresses |-> Addresses, Tokens |-> Tokens], a)
        IN  StoreCall("RemoveAddress", a, NoData, out.tw, FALSE, out.ok)

StoreClear ==
    StoreCall("Clear", "", NoData, Clear([Addresses |-> Addresses, Tokens |-> Tokens]),
              FALSE, TRUE)

\* The call has returned to its caller.
Return ==
    /\ call # NoCall
    /\ call' = NoCall
    /\ UNCHANGED <<cfg, file, Addresses, Tokens, loadErr, req, invoked, backendCalls,
                   backend, resp, mu, goroutines>>

\* A store made by NewTokenWhitelist.
InitStore == Started({DefaultBackendHost}, {f \in FileContents : f.kind = "missing"})

NextStoreFile ==
    StoreLoadFromFile \/ StoreAddAddress \/ StoreRemoveAddress \/ StoreClear \/ Return

SpecStoreFile == InitStore /\ [][NextStoreFile]_vars

NextStore == NextStoreFile \/ StoreLoadFromJSON

SpecStore == InitStore /\ [][NextStore]_vars

(***************************************************************************)
(* The whitelist store called from several goroutines                      *)
(*                                                                         *)
(* Every method takes tw.mu first (RLock in Contains, Size, GetAddresses;  *)
(* Lock in LoadFromJSON, AddAddress, RemoveAddress, Clear) and releases it *)
(* by a deferred unlock.  Between the two, each read and each assignment   *)
(* of tw.Addresses and tw.Tokens is a step of its own.                     *)
(***************************************************************************)
Readers == {"r1", "r2"}
Writers == {"w1", "w2"}

ReaderCalls ==
    {[op |-> "Contains", address |-> "0xa", data |-> NoData],
     [op |-> "Size", address |-> "", data |-> NoData],
     [op |-> "GetAddresses", address |-> "", data |-> NoData]}

WriterCalls ==
    {[op |-> "LoadFromJSON", address |-> "",
      data |-> [kind |-> "json", tokens |-> MkSlice(<<"0xA">>), addresses |-> NilSlice]],
     [op |-> "LoadFromJSON", address |-> "",
      data |-> [kind |-> "json", tokens |-> NilSlice, addresses |-> MkSlice(<<"0xa", "0xA">>)]],
     [op |-> "AddAddress", address |-> "0xb", data |-> NoData],
     [op |-> "RemoveAddress", address |-> "0xa", data |-> NoData],
     [op |-> "Clear", address |-> "", data |-> NoData]}

\* A goroutine that is not inside a method of the store.
Idle ==
    [pc |-> "idle", op |-> "", address |-> "", data |-> NoData,
     n |-> 0, result |-> <<>>, seen |-> {}, before |-> <<>>, todo |-> <<>>]

\* RLock that does not wait for a writer.
RLockNoWait(m) == TRUE

\* sync.RWMutex: RLock waits while a writer holds or awaits the mutex; Lock
\* first excludes the other writers, then waits for the readers to leave.
RLockReady(m) == m.w = ""

RLock(m, g) == [m EXCEPT !.readers = @ \cup {g}]
RUnlock(m, g) == [m EXCEPT !.readers = @ \ {g}]
LockBeginReady(m) == m.w = ""
LockBegin(m, g) == [m EXCEPT !.w = g]
LockReady(m, g) == m.w = g /\ ~m.held /\ m.readers = {}
Lock(m) == [m EXCEPT !.held = TRUE]
Unlock(m) == [m EXCEPT !.w = "", !.held = FALSE]

\* make([]string, n) and make([]WhitelistToken, n): n zero values.
MakeStrings(n) == [i \in 1..n |-> ""]
MakeTokens(n) == [i \in 1..n |-> [Address |-> ""]]

\* The successive contents of the store that the assignments of a method
\* leave behind, in program order, starting from the contents tw.
RECURSIVE FillAddresses(_, _, _)
FillAddresses(tw, elems, i) ==
    IF i > Len(elems) THEN <<>>
    ELSE LET next == [tw EXCEPT !.Addresses[i] = elems[i]]
         IN  <<next>> \o FillAddresses(next, elems, i + 1)

RECURSIVE FillTokens(_, _, _)
FillTokens(tw, elems, i) ==
    IF i > Len(elems) THEN <<>>
    ELSE LET next == [tw EXCEPT !.Tokens[i] = [Address |-> elems[i]]]
         IN  <<next>> \o FillTokens(next, elems, i + 1)

LoadFromJSONSteps(tw, data) ==
    IF data.kind # "json" THEN <<>>
    ELSE IF ~data.tokens.nil /\ Len(data.tokens.elems) > 0
    THEN LET elems == data.tokens.elems
             s1 == [tw EXCEPT !.Tokens = [i \in 1..Len(elems) |-> [Address |-> elems[i]]]]
             s2 == [s1 EXCEPT !.Addresses = MakeStrings(Len(elems))]
         IN  <<s1, s2>> \o FillAddresses(s2, elems, 1)
    ELSE IF ~data.addresses.nil
    THEN LET elems == data.addresses.elems
             s1 == [tw EXCEPT !.Addresses = elems]
             s2 == [s1 EXCEPT !.Tokens = MakeTokens(Len(elems))]
         IN  <<s1, s2>> \o FillTokens(s2, elems, 1)
    ELSE LET s1 == [tw EXCEPT !.Addresses = <<>>]
         IN  <<s1, [s1 EXCEPT !.Tokens = <<>>]>>

AddAddressSteps(tw, address) ==
    IF AddAddress(tw, address).err THEN <<>> ELSE <<AddAddress(tw, address).tw>>

\* append(tw.Addresses[:i], tw.Addresses[i+1:]...) moves the tail one place
\* down inside the slice's array; the assignment then shortens the slice.
RemoveAddressSteps(tw, address) ==
    IF ~RemoveAddress(tw, address).ok THEN <<>>
    ELSE LET after == RemoveAddress(tw, address).tw.Addresses
             moved == [tw EXCEPT !.Addresses =
                          after \o <<tw.Addresses[Len(tw.Addresses)]>>]
         IN  <<moved, [tw EXCEPT !.Addresses = after]>>

ClearSteps(tw) == <<Clear(tw)>>

WriteSteps(c, tw) ==
    IF c.op = "LoadFromJSON" THEN LoadFromJSONSteps(tw, c.data)
    ELSE IF c.op = "AddAddress" THEN AddAddressSteps(tw, c.address)
    ELSE IF c.op = "RemoveAddress" THEN RemoveAddressSteps(tw, c.address)
    ELSE ClearSteps(tw)

\* What the method returns to its caller.
WriteResult(c, tw) ==
    IF c.op = "LoadFromJSON" THEN <<LoadFromJSON(tw, c.data).err>>
    ELSE IF c.op = "AddAddress" THEN <<AddAddress(tw, c.address).err>>
    ELSE IF c.op = "RemoveAddress" THEN <<RemoveAddress(tw, c.address).ok>>
    ELSE <<>>

\* The value a reading method returns when the store holds addrs.
ReadResult(op, address, addrs) ==
    IF op = "Contains" THEN <<Contains(addrs, address)>>
    ELSE IF op = "Size" THEN <<Size(addrs)>>
    ELSE addrs

InMutation(g) == goroutines[g].pc \in {"write", "unlock"}

\* The contents of the store as the last whole mutation left them.
Committed ==
    IF \E w \in Writers : InMutation(w)
    THEN goroutines[CHOOSE w \in Writers : InMutation(w)].before
    ELSE Addresses

ConcUnchanged == UNCHANGED <<cfg, file, loadErr, req, invoked, backendCalls, backend, resp, call>>

\* A goroutine calls a method of the store.
CallReader(g) ==
    /\ goroutines[g].pc = "idle"
    /\ \E c \in ReaderCalls :
           goroutines' = [goroutines EXCEPT ![g] =
               [Idle EXCEPT !.pc = "rlock", !.op = c.op, !.address = c.address]]
    /\ UNCHANGED <<Addresses, Tokens, mu>>
    /\ ConcUnchanged

CallWriter(g) ==
    /\ goroutines[g].pc = "idle"
    /\ \E c \in WriterCalls :
           goroutines' = [goroutines EXCEPT ![g] =
               [Idle EXCEPT !.pc = "lock", !.op = c.op, !.address = c.address,
                            !.data = c.data]]
    /\ UNCHANGED <<Addresses, Tokens, mu>>
    /\ ConcUnchanged

\* tw.mu.RLock()
ReaderLock(g) ==
    /\ goroutines[g].pc = "rlock"
    /\ RLockReady(mu)
    /\ mu' = RLock(mu, g)
    /\ goroutines' = [goroutines EXCEPT ![g].pc = "header"]
    /\ UNCHANGED <<Addresses, Tokens>>
    /\ ConcUnchanged

\* The slice header of tw.Addresses is read: len(tw.Addresses), range, make.
ReadHeader(g) ==
    /\ goroutines[g].pc = "header"
    /\ goroutines' = [goroutines EXCEPT
           ![g].n = Len(Addresses),
           ![g].seen = {Committed},
           ![g].result = IF goroutines[g].op = "Size" THEN <<Len(Addresses)>> ELSE <<>>,
           ![g].pc = IF goroutines[g].op = "Size" THEN "runlock" ELSE "elems"]
    /\ UNCHANGED <<Addresses, Tokens, mu>>
    /\ ConcUnchanged

\* The elements are read: the comparison loop of Contains, the copy of
\* GetAddresses.
ReadElems(g) ==
    /\ goroutines[g].pc = "elems"
    /\ LET n == goroutines[g].n
           elems == [i \in 1..n |-> IF i <= Len(Addresses) THEN Addresses[i] ELSE ""]
       IN  goroutines' = [goroutines EXCEPT
               ![g].seen = @ \cup {Committed},
               ![g].result = ReadResult(goroutines[g].op, goroutines[g].address, elems),
               ![g].pc = "runlock"]
    /\ UNCHANGED <<Addresses, Tokens, mu>>
    /\ ConcUnchanged

\* The deferred tw.mu.RUnlock(), and the return of the result.
ReaderUnlock(g) ==
    /\ goroutines[g].pc = "runlock"
    /\ mu' = RUnlock(mu, g)
    /\ goroutines' = [goroutines EXCEPT ![g] = Idle]
    /\ UNCHANGED <<Addresses, Tokens>>
    /\ ConcUnchanged

\* tw.mu.Lock(): the writer excludes the other writers and new readers.
WriterLockBegin(g) ==
    /\ goroutines[g].pc = "lock"
    /\ IF goroutines[g].op = "AddAddress" /\ goroutines[g].address = ""
       THEN /\ goroutines' = [goroutines EXCEPT ![g] = Idle]
            /\ mu' = mu
       ELSE /\ LockBeginReady(mu)
            /\ mu' = LockBegin(mu, g)
            /\ goroutines' = [goroutines EXCEPT ![g].pc = "wait"]
    /\ UNCHANGED <<Addresses, Tokens>>
    /\ ConcUnchanged

\* tw.mu.Lock() returns once the readers have left.
WriterLock(g) ==
    /\ goroutines[g].pc = "wait"
    /\ LockReady(mu, g)
    /\ mu' = Lock(mu)
    /\ LET tw == [Addresses |-> Addresses, Tokens |-> Tokens]
           c == goroutines[g]
       IN  goroutines' = [goroutines EXCEPT
               ![g].before = Addresses,
               ![g].todo = WriteSteps(c, tw),
               ![g].result = WriteResult(c, tw),
               ![g].pc = IF WriteSteps(c, tw) = <<>> THEN "unlock" ELSE "write"]
    /\ UNCHANGED <<Addresses, Tokens>>
    /\ ConcUnchanged

\* One assignment to tw.Addresses or tw.Tokens (or to an element).
Write(g) ==
    /\ goroutines[g].pc = "write"
    /\ Addresses' = Head(goroutines[g].todo).Addresses
    /\ Tokens' = Head(goroutines[g].todo).Tokens
    /\ goroutines' = [goroutines EXCEPT
           ![g].todo = Tail(@),
           ![g].pc = IF Len(goroutines[g].todo) = 1 THEN "unlock" ELSE "write"]
    /\ UNCHANGED mu
    /\ ConcUnchanged

\* The deferred tw.mu.Unlock(), and the return of the result.
WriterUnlock(g) ==
    /\ goroutines[g].pc = "unlock"
    /\ mu' = Unlock(mu)
    /\ goroutines' = [goroutines EXCEPT ![g] = Idle]
    /\ UNCHANGED <<Addresses, Tokens>>
    /\ ConcUnchanged

ReaderStep(g) == ReaderLock(g) \/ ReadHeader(g) \/ ReadElems(g) \/ ReaderUnlock(g)

WriterStep(g) == WriterLockBegin(g) \/ WriterLock(g) \/ Write(g) \/ WriterUnlock(g)

InitConc ==
    StartedWith({DefaultBackendHost}, {f \in FileContents : f.kind = "missing"},
                [g \in Readers \cup Writers |-> Idle])

NextConc ==
    \/ \E g \in Readers : CallReader(g) \/ ReaderStep(g)
    \/ \E g \in Writers : CallWriter(g) \/ WriterStep(g)

SpecConc == InitConc /\ [][NextConc]_vars

(***************************************************************************)
(* config: Load, called by main with the environment of the process        *)
(***************************************************************************)
\* An environment variable: unset, or set to a value (which may be empty).
Unset == [set |-> FALSE, value |-> <<>>]
SetTo(value) == [set |-> TRUE, value |-> value]

\* os.Getenv: the value, the empty string for a variable that is not set.
Getenv(env, key) == env[key].value

DecimalValue(c) == CHOOSE d \in 0..9 : DigitChars[d + 1] = c

RECURSIVE ParseDigits(_, _)
ParseDigits(s, n) ==
    IF s = <<>> THEN n ELSE ParseDigits(Tail(s), 10 * n + DecimalValue(Head(s)))

\* strconv.Atoi: an optional sign and one or more decimal digits.
Atoi(s) ==
    LET signed == s # <<>> /\ Head(s) \in {"+", "-"}
        digits == IF signed THEN Tail(s) ELSE s
    IN  IF digits = <<>> \/ \E i \in 1..Len(digits) : digits[i] \notin {DigitChars[d] : d \in 1..Len(DigitChars)}
        THEN [n |-> 0, err |-> TRUE]
        ELSE [n |-> IF signed /\ Head(s) = "-" THEN 0 - ParseDigits(digits, 0)
                    ELSE ParseDigits(digits, 0),
              err |-> FALSE]

getEnvWithDefault(env, key, defaultValue) ==
    IF Getenv(env, key) # <<>> THEN Getenv(env, key) ELSE defaultValue

\* The timeout in seconds.
getTimeoutFromEnv(env, key, defaultValue) ==
    LET value == Getenv(env, key)
        parsed == Atoi(value)
    IN  IF value # <<>> /\ ~parsed.err /\ parsed.n > 0 THEN parsed.n ELSE defaultValue

DefaultPort == <<"8","0">>
DefaultWhitelistFile == <<"w","h","i","t","e","l","i","s","t",".","j","s","o","n">>
DefaultTimeout == 30

\* Config.Validate: the error it returns, nil when the configuration is valid.
ConfigValidate(c) ==
    IF c.BackendHost = <<>>
    THEN [isNil |-> FALSE, text |-> "backend host cannot be empty"]
    ELSE IF ~HasPrefix(c.BackendHost, <<"h","t","t","p",":","/","/">>) /\ ~HasPrefix(c.BackendHost, <<"h","t","t","p","s",":","/","/">>)
    THEN [isNil |-> FALSE, text |-> "backend host must start with http:// or https://"]
    ELSE IF c.Port = <<>>
    THEN [isNil |-> FALSE, text |-> "port cannot be empty"]
    ELSE IF Atoi(c.Port).err \/ Atoi(c.Port).n < 1 \/ Atoi(c.Port).n > 65535
    THEN [isNil |-> FALSE, text |-> "port must be a valid number between 1 and 65535"]
    ELSE IF c.WhitelistFile = <<>>
    THEN [isNil |-> FALSE, text |-> "whitelist file path cannot be empty"]
    ELSE IF c.Timeout <= 0
    THEN [isNil |-> FALSE, text |-> "timeout must be greater than 0"]
    ELSE [isNil |-> TRUE, text |-> ""]

NilConfig == [isNil |-> TRUE]

Load(env) ==
    LET config == [isNil |-> FALSE,
                   BackendHost |-> getEnvWithDefault(env, "BACKEND_HOST", DefaultBackendHost),
                   Port |-> getEnvWithDefault(env, "PORT", DefaultPort),
                   WhitelistFile |->
                       getEnvWithDefault(env, "WHITELIST_FILE", DefaultWhitelistFile),
                   Timeout |-> getTimeoutFromEnv(env, "HTTP_TIMEOUT", DefaultTimeout)]
        err == ConfigValidate(config)
    IN  IF ~err.isNil
        THEN [config |-> NilConfig,
              err |-> [isNil |-> FALSE,
                       text |-> <<"configuration validation failed: ", err.text>>]]
        ELSE [config |-> config, err |-> [isNil |-> TRUE, text |-> <<>>]]

\* The environments the process is started in.
Environments ==
    {[k \in {"BACKEND_HOST", "PORT", "WHITELIST_FILE", "HTTP_TIMEOUT"} |->
         CASE k = "BACKEND_HOST" -> host
           [] k = "PORT" -> port
           [] k = "WHITELIST_FILE" -> path
           [] OTHER -> timeout] :
        host \in {Unset, SetTo(<<"h","t","t","p",":","/","/","b",".","i","o","/">>), SetTo(<<"f","t","p",":","/","/","b",".","i","o">>), SetTo(<<"b",".","i","o">>)},
        port \in {Unset} \cup {SetTo(v) : v \in {<<"8","0","8","0">>, <<"+","1">>, <<"6","5","5","3","5">>, <<"0">>, <<"6","5","5","3","6">>,
                                                <<"-","1">>, <<"h","t","t","p">>, <<"8","0","a">>, <<" ","8","0">>}},
        path \in {Unset, SetTo(<<>>), SetTo(<<"w",".","j","s","o","n">>)},
        timeout \in {Unset} \cup {SetTo(v) : v \in {<<"4","5">>, <<"0">>, <<"-","5">>, <<"a","b","c">>, <<"1",".","5">>}}}

\* main: config.Load, and the process exits (Fatal) when it returns an error.
MainLoad(env) ==
    /\ call = NoCall
    /\ LET out == Load(env)
       IN  call' = [op |-> "Load", env |-> env, config |-> out.config, err |-> out.err,
                    exited |-> ~out.err.isNil]
    /\ UNCHANGED <<cfg, file, Addresses, Tokens, loadErr, req, invoked, backendCalls,
                   backend, resp, mu, goroutines>>

Startup == \E env \in Environments : MainLoad(env)

NextConfig == Startup \/ Return

SpecConfig == InitStore /\ [][NextConfig]_vars

(***************************************************************************)
(* client: forwardHeaders and getClientIP, called on any inbound request   *)
(***************************************************************************)
\* http.Header.Get: the first value of the header, the empty string if none.
HeaderGet(h, key) == IF key \in DOMAIN h /\ Len(h[key]) > 0 THEN h[key][1] ELSE <<>>

\* strings.LastIndex for a one-character separator; 0 stands for Go's -1.
LastIndex(s, c) ==
    IF \E i \in 1..Len(s) : s[i] = c
    THEN CHOOSE i \in 1..Len(s) : s[i] = c /\ \A j \in (i + 1)..Len(s) : s[j] # c
    ELSE 0

\* strings.Split(s, sep)[0] for a one-character separator.
SplitFirst(s, sep) ==
    IF \E i \in 1..Len(s) : s[i] = sep
    THEN SubSeq(s, 1, (CHOOSE i \in 1..Len(s) : s[i] = sep /\ \A j \in 1..(i - 1) : s[j] # sep) - 1)
    ELSE s

RECURSIVE TrimSpace(_)
TrimSpace(s) ==
    IF s = <<>> THEN s
    ELSE IF Head(s) = " " THEN TrimSpace(Tail(s))
    ELSE IF s[Len(s)] = " " THEN TrimSpace(SubSeq(s, 1, Len(s) - 1))
    ELSE s

\* getClientIP that keeps the port of RemoteAddr.
getClientIPWithPort(r) ==
    LET xff == HeaderGet(r.Header, "X-Forwarded-For")
        xri == HeaderGet(r.Header, "X-Real-IP")
    IN  IF xff # <<>> THEN TrimSpace(SplitFirst(xff, ","))
        ELSE IF xri # <<>> THEN xri
        ELSE r.RemoteAddr

getClientIP(r) ==
    LET xff == HeaderGet(r.Header, "X-Forwarded-For")
        xri == HeaderGet(r.Header, "X-Real-IP")
        idx == LastIndex(r.RemoteAddr, ":")
    IN  IF xff # <<>> THEN TrimSpace(SplitFirst(xff, ","))
        ELSE IF xri # <<>> THEN xri
        ELSE IF r.RemoteAddr # <<>>
        THEN IF idx # 0 THEN SubSeq(r.RemoteAddr, 1, idx - 1) ELSE r.RemoteAddr
        ELSE <<>>

\* A list of forwarded headers that also names Authorization.
headersToForwardWithAuthorization ==
    <<"Accept", "Accept-Encoding", "Accept-Language", "Cache-Control", "Content-Type",
      "User-Agent", "X-Forwarded-For", "X-Real-IP", "Authorization">>

headersToForward ==
    <<"Accept", "Accept-Encoding", "Accept-Language", "Cache-Control", "Content-Type",
      "User-Agent", "X-Forwarded-For", "X-Real-IP">>

RECURSIVE forwardLoop(_, _, _)
forwardLoop(original, header, i) ==
    IF i > Len(headersToForward) THEN header
    ELSE LET value == HeaderGet(original, headersToForward[i])
         IN  forwardLoop(original,
                         IF value # <<>> THEN SetHeader(header, headersToForward[i], value)
                         ELSE header,
                         i + 1)

\* forwardHeaders: the header of the backend request afterwards.
forwardHeaders(originalReq, header) ==
    LET h1 == forwardLoop(originalReq.Header, header, 1)
        remoteAddr == getClientIP(originalReq)
        h2 == IF HeaderGet(originalReq.Header, "X-Forwarded-For") = <<>> /\ remoteAddr # <<>>
              THEN SetHeader(h1, "X-Forwarded-For", remoteAddr)
              ELSE h1
    IN  IF HeaderGet(originalReq.Header, "User-Agent") = <<>>
        THEN SetHeader(h2, "User-Agent", <<"g","o","-","a","p","i","-","p","r","o","x","y","/","1",".","0">>)
        ELSE h2

\* The headers of inbound requests and the values they take; a header may be
\* repeated and may be sent with an empty value.
InboundHeaderNames ==
    {headersToForward[i] : i \in 1..Len(headersToForward)}
    \cup {"Authorization", "X-Custom-Header"}

InboundHeaderValues(name) ==
    IF name = "X-Forwarded-For"
    THEN {<<<<"1",".","1",".","1",".","1">>>>, <<<<" ","1",".","1",".","1",".","1"," ",","," ","2",".","2",".","2",".","2">>>>, <<<<"1",".","1",".","1",".","1">>, <<"3",".","3",".","3",".","3">>>>, <<<<>>>>}
    ELSE IF name = "X-Real-IP" THEN {<<<<"9",".","9",".","9",".","9">>>>}
    ELSE IF name = "User-Agent" THEN {<<<<"t","e","s","t","-","a","g","e","n","t">>>>, <<<<>>>>}
    ELSE IF name = "Accept" THEN {<<<<"a","p","p","l","i","c","a","t","i","o","n","/","j","s","o","n">>>>, <<<<"t","e","x","t","/","h","t","m","l">>, <<"*","/","*">>>>}
    ELSE IF name = "Authorization" THEN {<<<<"B","e","a","r","e","r"," ","s","e","c","r","e","t">>>>}
    ELSE {<<<<"v">>>>}

InboundHeaders ==
    UNION {[names -> UNION {InboundHeaderValues(k) : k \in names}] :
               names \in SubsetsUpTo(InboundHeaderNames, MaxInboundHeaders)}

InboundHeaderSets ==
    {h \in InboundHeaders : \A k \in DOMAIN h : h[k] \in InboundHeaderValues(k)}

RemoteAddrs == {<<"1","9","2",".","1","6","8",".","1",".","1",":","1","2","3","4","5">>, <<"[",":",":","1","]",":","8","0">>, <<"1","9","2",".","1","6","8",".","1",".","1">>, <<>>}

\* forwardHeaders on a backend request fresh from http.NewRequestWithContext.
ForwardCall(header, remoteAddr) ==
    /\ call = NoCall
    /\ LET originalReq == [Header |-> header, RemoteAddr |-> remoteAddr]
       IN  call' = [op |-> "forwardHeaders", originalReq |-> originalReq,
                    backendReq |-> [Header |-> forwardHeaders(originalReq, NoHeaders)]]
    /\ UNCHANGED <<cfg, file, Addresses, Tokens, loadErr, req, invoked, backendCalls,
                   backend, resp, mu, goroutines>>

Forward == \E header \in InboundHeaderSets, remoteAddr \in RemoteAddrs :
               ForwardCall(header, remoteAddr)

NextForward == Forward \/ Return

SpecForward == InitStore /\ [][NextForward]_vars

(***************************************************************************)
(* A tokens request while other goroutines mutate the whitelist            *)
(***************************************************************************)
\* The handler's goroutine outside ServeHTTP.
HandlerIdle ==
    [pc |-> "idle", i |-> 0, filteredTokens |-> NilSlice, seen |-> {}, mutations |-> 0]

Handler == goroutines["handler"]

\* filterTokens keeping every token.
keepTokenAlways(addrs, token) == TRUE

\* The test of filterTokens' loop for one token.
keepToken(addrs, token) == Contains(addrs, token.Address)

FilterUnchanged == UNCHANGED <<cfg, file, loadErr, call, mu>>

\* ServeHTTP up to the return of GetTokens; an error, and a list without
\* items, are answered without looking at the whitelist.
FilterBegin(bk) ==
    LET h1 == SetHeader(setCORSHeaders(NoHeaders), "Content-Type", "application/json")
        fetched == GetTokens(cfg, bk)
        consults == fetched.err.isNil /\ Len(fetched.resp.Items.elems) > 0
    IN  /\ req = NoRequest
        /\ Handler.pc = "idle"
        /\ req' = [method |-> "GET", path |-> TokensPath, query |-> <<>>, body |-> "readable"]
        /\ invoked' = <<"CORSHandler", "routeHandler", "tokenHandler">>
        /\ backend' = bk
        /\ backendCalls' = <<fetched.call>>
        /\ resp' = IF consults THEN NoResponse
                   ELSE TokenFilterRespond(h1, fetched.resp, fetched.err, Addresses)
        /\ goroutines' = [goroutines EXCEPT !["handler"] =
               [HandlerIdle EXCEPT !.pc = IF consults THEN "size" ELSE "done",
                                   !.i = 1, !.seen = {Addresses}]]
        /\ UNCHANGED <<Addresses, Tokens>>
        /\ FilterUnchanged

\* filterTokens: h.whitelist.Size() == 0 returns the backend's list.
FilterSize ==
    /\ Handler.pc = "size"
    /\ IF Size(Addresses) = 0
       THEN /\ resp' = [status |-> 200,
                        headers |-> SetHeader(setCORSHeaders(NoHeaders),
                                              "Content-Type", "application/json"),
                        body |-> EncodeTokenResponse(GetTokens(cfg, backend).resp)]
            /\ goroutines' = [goroutines EXCEPT !["handler"].pc = "done"]
       ELSE /\ resp' = resp
            /\ goroutines' = [goroutines EXCEPT !["handler"].pc = "loop"]
    /\ UNCHANGED <<Addresses, Tokens, req, invoked, backendCalls, backend>>
    /\ FilterUnchanged

\* filterTokens: one round of the loop, h.whitelist.Contains(token.Address);
\* after the last round the filtered list is encoded.
FilterContains ==
    /\ Handler.pc = "loop"
    /\ LET items == GetTokens(cfg, backend).resp.Items.elems
           token == items[Handler.i]
           filteredTokens == IF keepToken(Addresses, token)
                             THEN Append1(Handler.filteredTokens, token)
                             ELSE Handler.filteredTokens
       IN  IF Handler.i < Len(items)
           THEN /\ goroutines' = [goroutines EXCEPT
                       !["handler"].i = @ + 1,
                       !["handler"].filteredTokens = filteredTokens]
                /\ resp' = resp
           ELSE /\ goroutines' = [goroutines EXCEPT
                       !["handler"].pc = "done",
                       !["handler"].filteredTokens = filteredTokens]
                /\ resp' = [status |-> 200,
                            headers |-> SetHeader(setCORSHeaders(NoHeaders),
                                                  "Content-Type", "application/json"),
                            body |-> EncodeTokenResponse(
                                         [isNil |-> FALSE, Items |-> filteredTokens])]
    /\ UNCHANGED <<Addresses, Tokens, req, invoked, backendCalls, backend>>
    /\ FilterUnchanged

\* Another goroutine runs a whole mutation of the store between two calls of
\* the handler (each call holds the store's lock from start to end).
WhitelistMutation ==
    /\ Handler.pc \in {"size", "loop"}
    /\ Handler.mutations < MaxMutations
    /\ \E c \in WriterCalls :
           LET steps == WriteSteps(c, [Addresses |-> Addresses, Tokens |-> Tokens])
           IN  /\ steps # <<>>
               /\ Addresses' = steps[Len(steps)].Addresses
               /\ Tokens' = steps[Len(steps)].Tokens
               /\ goroutines' = [goroutines EXCEPT
                      !["handler"].mutations = @ + 1,
                      !["handler"].seen = @ \cup {steps[Len(steps)].Addresses}]
    /\ UNCHANGED <<req, invoked, backendCalls, backend, resp>>
    /\ FilterUnchanged

\* ServeHTTP has returned.
FilterFinish ==
    /\ Handler.pc = "done"
    /\ goroutines' = [goroutines EXCEPT !["handler"] = HandlerIdle]
    /\ req' = NoRequest
    /\ invoked' = <<>>
    /\ backendCalls' = <<>>
    /\ backend' = NoBackend
    /\ resp' = NoResponse
    /\ UNCHANGED <<Addresses, Tokens>>
    /\ FilterUnchanged

FilterRequest == \E bk \in TokenBackends : FilterBegin(bk)

InitFilter ==
    StartedWith({DefaultBackendHost}, {f \in FileContents : f.kind = "missing"},
                [g \in {"handler"} |-> HandlerIdle])

NextFilter ==
    FilterRequest \/ FilterSize \/ FilterContains \/ WhitelistMutation \/ FilterFinish

SpecFilter == InitFilter /\ [][NextFilter]_vars

(***************************************************************************)
(* Properties                                                              *)
(***************************************************************************)
Range(s) == {s[i] : i \in 1..Len(s)}

Routed == Len(invoked) = 3
TokenHandled == Routed /\ invoked[3] = "tokenHandler"
ProxyHandled == Routed /\ invoked[3] = "standardHandler"

\* The backend answered the token fetch with 200 and a decodable token list.
TokenListReturned ==
    /\ TokenHandled
    /\ backend.transport = "ok"
    /\ backend.code = 200
    /\ backend.body.kind = "json"

BackendItems == backend.body.items.elems

InWhitelist(token) == token.Address \in Range(Addresses)

\* C1: with a non-empty whitelist, the 200 response of the tokens endpoint
\* holds exactly the backend tokens whose address equals (case-sensitively)
\* some whitelist entry, once per occurrence and in the backend's order.
C1_FilteredExactly ==
    (TokenListReturned /\ Len(Addresses) > 0) =>
        /\ resp.status = 200
        /\ resp.body.kind = "tokens"
        /\ resp.body.items = SelectSeq(BackendItems, InWhitelist)

\* A token is kept and a token whose address differs only in case is dropped.
C1_Witness ==
    /\ TokenListReturned
    /\ Addresses = <<"0xa">>
    /\ BackendItems = <<[Address |-> "0xA", Name |-> "T2"], [Address |-> "0xa", Name |-> "T1"]>>
    /\ resp.body.items = <<[Address |-> "0xa", Name |-> "T1"]>>

\* C2: with a non-empty whitelist and no backend token in it (or an empty
\* backend list), the tokens endpoint answers 200 with items an empty array,
\* never null.
C2_EmptyArrayNeverNull ==
    (/\ TokenListReturned
     /\ Len(Addresses) > 0
     /\ \A i \in 1..Len(BackendItems) : ~InWhitelist(BackendItems[i])) =>
        /\ resp.status = 200
        /\ resp.body.kind = "tokens"
        /\ resp.body.items = <<>>
        /\ ~resp.body.itemsNull

\* C3: with an empty whitelist the tokens endpoint returns the backend's
\* token list unchanged and in the same order.
C3_EmptyWhitelistPassthrough ==
    (TokenListReturned /\ Size(Addresses) = 0) =>
        /\ resp.status = 200
        /\ resp.body.kind = "tokens"
        /\ resp.body.items = BackendItems

C3_Witness ==
    /\ TokenListReturned
    /\ Size(Addresses) = 0
    /\ Len(BackendItems) = 2
    /\ resp.body.items = BackendItems

\* The whitelist a fresh load of the file on disk gives.
FileWhitelist == LoadFromFile(NewTokenWhitelist, file)

\* C4: a tokens request is filtered by the contents the whitelist file has
\* at the time of the request, also after the file was changed while the
\* server runs.
C4_FilteredByFileOnDisk ==
    (TokenListReturned /\ file.kind = "json" /\ ~FileWhitelist.err) =>
        resp.body.items =
            IF Len(FileWhitelist.tw.Addresses) = 0 THEN BackendItems
            ELSE SelectSeq(BackendItems,
                           LAMBDA t : t.Address \in Range(FileWhitelist.tw.Addresses))

\* C5: every non-200 answer of the backend to the token fetch gives an API
\* error and the response 502 with error "Backend API error".
C5_Non200IsBackendAPIError ==
    (TokenHandled /\ backend.transport = "ok" /\ backend.code # 200) =>
        /\ IsAPIError(GetTokens(cfg, backend).err)
        /\ resp.status = 502
        /\ resp.body.kind = "error"
        /\ resp.body.error = "Backend API error"

TokensEndpointPath(p) ==
    \/ p = <<"/","a","p","i","/","v","2","/","t","o","k","e","n","s">>
    \/ p = <<"/","a","p","i","/","v","2","/","t","o","k","e","n","s","/">>
    \/ /\ Len(p) >= 15
       /\ \A i \in 1..15 : p[i] = (<<"/","a","p","i","/","v","2","/","t","o","k","e","n","s","?">>)[i]

\* C8: a routed request reaches exactly one of the two handlers, the token
\* filter handler iff its path is a tokens endpoint path, the standard proxy
\* handler otherwise.
C8_RoutedByExactPath ==
    Routed =>
        /\ invoked[3] \in {"tokenHandler", "standardHandler"}
        /\ Cardinality({i \in 1..Len(invoked) :
                            invoked[i] \in {"tokenHandler", "standardHandler"}}) = 1
        /\ (invoked[3] = "tokenHandler") <=> TokensEndpointPath(req.path)
        /\ req.path \in {<<"/","a","p","i","/","v","2","/","t","o","k","e","n","s","/","1","2","3">>, <<"/","a","p","i","/","v","1","/","t","o","k","e","n","s">>, <<"/","t","o","k","e","n","s">>, <<>>}
               => invoked[3] = "standardHandler"

C8_Witness ==
    /\ ProxyHandled
    /\ req.path = <<"/","a","p","i","/","v","2","/","t","o","k","e","n","s","/","1","2","3">>

\* C9: the standard proxy handler calls the backend with the method of the
\* inbound request and with its path and raw query, unchanged, on the
\* backend host.
C9_ForwardedVerbatim ==
    (ProxyHandled /\ req.body = "readable") =>
        /\ Len(backendCalls) = 1
        /\ backendCalls[1].method = req.method
        /\ backendCalls[1].url =
               TrimSuffix(cfg.BackendHost, <<"/">>) \o req.path
               \o (IF req.query = <<>> THEN <<>> ELSE <<"?">> \o req.query)

StrippedHeaderNames ==
    {"Connection", "Keep-Alive", "Proxy-Authenticate", "Proxy-Authorization",
     "Te", "Trailers", "Transfer-Encoding", "Upgrade",
     "Access-Control-Allow-Origin", "Access-Control-Allow-Methods",
     "Access-Control-Allow-Headers", "Access-Control-Allow-Credentials",
     "Access-Control-Expose-Headers", "Access-Control-Max-Age",
     "Access-Control-Request-Method", "Access-Control-Request-Headers"}

\* C10: on a successful proxy call no hop-by-hop header and no
\* Access-Control-* header of the response carries a value of the backend,
\* and every other backend header is copied with all its values in order.
C10_HeadersStrippedAndCopied ==
    (ProxyHandled /\ backend.transport = "ok") =>
        /\ \A k \in StrippedHeaderNames :
               k \in DOMAIN resp.headers => Range(resp.headers[k]) \cap BackendValues = {}
        /\ \A k \in DOMAIN backend.headers \ StrippedHeaderNames :
               /\ k \in DOMAIN resp.headers
               /\ resp.headers[k] = backend.headers[k]

C10_Witness ==
    /\ ProxyHandled
    /\ backend.transport = "ok"
    /\ DOMAIN backend.headers = {"Connection", "Set-Cookie"}
    /\ "Connection" \notin DOMAIN resp.headers
    /\ resp.headers["Set-Cookie"] = <<"b1", "b2">>

\* C11: whatever status the backend answers a proxied request with,
\* ProxyRequest returns no error and the client receives that status and the
\* backend's body unchanged; the proxy makes no 502 or 500 of its own.
C11_StatusAndBodyRelayed ==
    (ProxyHandled /\ backend.transport = "ok") =>
        /\ LET endpoint == IF req.query # <<>> THEN req.path \o <<"?">> \o req.query
                           ELSE req.path
           IN  ProxyRequest(cfg, req, endpoint, backend).err.isNil
        /\ resp.status = backend.code
        /\ resp.body.kind = "raw"
        /\ resp.body.text = <<backend.body.raw>>

C11_Witness ==
    /\ ProxyHandled
    /\ backend.transport = "ok"
    /\ backend.code = 504
    /\ resp.status = 504
    /\ resp.body.text = <<"backend body">>

\* C13: when the whitelist load at startup failed, the server runs with an
\* empty whitelist and the tokens endpoint returns every backend token.
C13_FailedLoadMeansEmptyWhitelist ==
    (loadErr /\ TokenListReturned) =>
        /\ Size(Addresses) = 0
        /\ resp.status = 200
        /\ resp.body.items = BackendItems

\* C20: the query string of a tokens request is sent on to the backend with
\* the token fetch, and the response is filtered by the whitelist.
C20_QueryForwardedToTokenFetch ==
    (TokenHandled /\ req.query # <<>>) =>
        /\ Len(backendCalls) = 1
        /\ backendCalls[1].url = GetBackendAPIURL(cfg) \o <<"/","t","o","k","e","n","s","?">> \o req.query
        /\ TokenListReturned =>
               resp.body.items =
                   IF Size(Addresses) = 0 THEN BackendItems
                   ELSE SelectSeq(BackendItems, InWhitelist)

\* C12: when the client's ProxyRequest returns an error the standard proxy
\* handler answers in plain text: 502 "Bad Gateway: Backend API unreachable"
\* for a network error, 502 "Bad Gateway: Backend API error" for an API
\* error, 500 "Internal Server Error" for any other error.
C12_ProxyErrorResponses ==
    call.op = "ProxyRequest" =>
        /\ resp.body.kind = "text"
        /\ "NetworkError" \in call.err.types =>
               /\ resp.status = 502
               /\ resp.body.text = <<"Bad Gateway: Backend API unreachable", "\n">>
        /\ "APIError" \in call.err.types =>
               /\ resp.status = 502
               /\ resp.body.text = <<"Bad Gateway: Backend API error", "\n">>
        /\ call.err.types = {} =>
               /\ resp.status = 500
               /\ resp.body.text = <<"Internal Server Error", "\n">>

NoDuplicates(addrs) ==
    \A i, j \in 1..Len(addrs) : i # j => addrs[i] # addrs[j]

\* C14: LoadFromFile leaves the store's contents as they were when the path
\* does not exist (and returns no error) and when the file is unreadable or
\* holds malformed JSON (and returns an error).
C14_FailedLoadKeepsContents ==
    (call.op = "LoadFromFile" /\ call.data.kind \in {"missing", "unreadable", "malformed"}) =>
        /\ Addresses = call.before.Addresses
        /\ Tokens = call.before.Tokens
        /\ call.err <=> call.data.kind # "missing"

C14_Witness ==
    /\ call.op = "LoadFromFile"
    /\ call.data.kind = "malformed"
    /\ call.err
    /\ Addresses = <<"0xa", "0xb">>

\* C15: after any sequence of LoadFromFile, AddAddress, RemoveAddress and
\* Clear calls, failed LoadFromFile calls included, the whitelist holds no
\* address twice and no empty address.
C15_NoDuplicateNoEmptyAddress ==
    /\ NoDuplicates(Addresses)
    /\ \A i \in 1..Len(Addresses) : Addresses[i] # ""

C18_AddAddress ==
    call.op = "AddAddress" =>
        IF call.address = "" \/ Contains(call.before.Addresses, call.address)
        THEN /\ call.err
             /\ Addresses = call.before.Addresses
             /\ Size(Addresses) = Size(call.before.Addresses)
        ELSE /\ ~call.err
             /\ Contains(Addresses, call.address)
             /\ Size(Addresses) = Size(call.before.Addresses) + 1

C18_Witness ==
    /\ call.op = "AddAddress"
    /\ call.address = "0xa"
    /\ call.before.Addresses = <<"0xa", "0xA">>
    /\ call.err
    /\ Addresses = <<"0xa", "0xA">>

\* C19: in every reachable state of the store, RemoveAddress(a) returning
\* true leaves a not contained and the size one less; for an absent a it
\* returns false and leaves the contents as they were.
C19_RemoveAddress ==
    call.op = "RemoveAddress" =>
        /\ call.ok =>
               /\ ~Contains(Addresses, call.address)
               /\ Size(Addresses) = Size(call.before.Addresses) - 1
        /\ ~Contains(call.before.Addresses, call.address) =>
               /\ ~call.ok
               /\ Addresses = call.before.Addresses

\* A goroutine inside a method of the store can take its next step.
Ready(g) ==
    LET c == goroutines[g]
    IN  /\ c.pc = "rlock" => RLockReady(mu)
        /\ c.pc = "lock" => (c.op = "AddAddress" /\ c.address = "") \/ LockBeginReady(mu)
        /\ c.pc = "wait" => LockReady(mu, g)

\* C16: while LoadFromJSON, AddAddress, RemoveAddress and Clear run in other
\* goroutines, the value Contains, Size or GetAddresses returns is the value
\* for the whole contents of the whitelist as some completed mutation left
\* them during the call, never for a half-written state; and whenever some
\* goroutine is inside a method of the store, one of them can take a step
\* (no deadlock).
C16_ReadersSeeWholeContents ==
    /\ \A r \in Readers :
           goroutines[r].pc = "runlock" =>
               \E addrs \in goroutines[r].seen :
                   goroutines[r].result =
                       ReadResult(goroutines[r].op, goroutines[r].address, addrs)
    /\ LET inside == {g \in Readers \cup Writers : goroutines[g].pc # "idle"}
       IN  inside # {} => \E g \in inside : Ready(g)

\* A reader holds its result while one writer waits for the readers to leave
\* and the other writer waits for the first.
C16_Witness ==
    /\ goroutines["r1"].pc = "runlock"
    /\ goroutines["r1"].op = "GetAddresses"
    /\ goroutines["r1"].result = <<"0xa", "0xA", "0xb">>
    /\ goroutines["r2"].pc = "rlock"
    /\ goroutines["w1"].pc = "wait"
    /\ goroutines["w1"].op = "RemoveAddress"
    /\ goroutines["w2"].pc = "lock"
    /\ goroutines["w2"].op = "LoadFromJSON"

\* The call to the backend failed in transport.
BackendCallFailed == backend.transport \in {t.transport : t \in TransportFailures}

WrappedHandlers == {"healthCheckHandler", "routeHandler"}

\* C25: CORSHandler runs first and sets the CORS headers on every response;
\* an OPTIONS request on any route is answered 200 by CORSHandler alone, with
\* no wrapped handler, no token filter or proxy handler and no backend call;
\* for every other method the wrapped handler is invoked exactly once, after
\* CORSHandler.
C25_PreflightShortCircuit ==
    req # NoRequest =>
        /\ invoked[1] = "CORSHandler"
        /\ \A k \in DOMAIN setCORSHeaders(NoHeaders) :
               /\ k \in DOMAIN resp.headers
               /\ resp.headers[k] = setCORSHeaders(NoHeaders)[k]
        /\ req.method = "OPTIONS" =>
               /\ invoked = <<"CORSHandler">>
               /\ resp.status = 200
               /\ resp.body = NoResponseBody
               /\ backendCalls = <<>>
        /\ req.method # "OPTIONS" =>
               /\ Len(invoked) >= 2
               /\ invoked[2] \in WrappedHandlers
               /\ Cardinality({i \in 1..Len(invoked) : invoked[i] \in WrappedHandlers}) = 1

\* A preflight request for the tokens path, answered without the token filter.
C25_Witness ==
    /\ req.method = "OPTIONS"
    /\ req.path = TokensPath
    /\ invoked = <<"CORSHandler">>
    /\ resp.status = 200
    /\ backendCalls = <<>>

\* The values of the environment that the configuration rules call invalid.
InvalidBackendURL(env) ==
    /\ env["BACKEND_HOST"].set
    /\ ~HasPrefix(env["BACKEND_HOST"].value, <<"h","t","t","p",":","/","/">>)
    /\ ~HasPrefix(env["BACKEND_HOST"].value, <<"h","t","t","p","s",":","/","/">>)

InvalidPort(env) ==
    /\ env["PORT"].set
    /\ env["PORT"].value \notin {<<"8","0","8","0">>, <<"+","1">>, <<"6","5","5","3","5">>}

InvalidTimeout(env) ==
    /\ env["HTTP_TIMEOUT"].set
    /\ env["HTTP_TIMEOUT"].value # <<"4","5">>

EmptyWhitelistPath(env) ==
    /\ env["WHITELIST_FILE"].set
    /\ env["WHITELIST_FILE"].value = <<>>

\* C22: Load returns an error and the process exits whenever the environment
\* holds a backend URL without http:// or https:// prefix, a port that is not
\* a number in 1..65535, a timeout that is not a number greater than 0, or an
\* empty whitelist path.
C22_InvalidConfigurationIsFatal ==
    call.op = "Load" =>
        ((\/ InvalidBackendURL(call.env)
          \/ InvalidPort(call.env)
          \/ InvalidTimeout(call.env)
          \/ EmptyWhitelistPath(call.env)) =>
            /\ ~call.err.isNil
            /\ call.config.isNil
            /\ call.exited)

AllowList ==
    {"Accept", "Accept-Encoding", "Accept-Language", "Cache-Control", "Content-Type",
     "User-Agent", "X-Forwarded-For", "X-Real-IP"}

\* The request has the header with a non-empty (first) value.
Sent(r, key) == key \in DOMAIN r.Header /\ r.Header[key] # <<>> /\ r.Header[key][1] # <<>>

HostOf(remoteAddr) ==
    CASE remoteAddr = <<"1","9","2",".","1","6","8",".","1",".","1",":","1","2","3","4","5">> -> <<"1","9","2",".","1","6","8",".","1",".","1">>
      [] remoteAddr = <<"[",":",":","1","]",":","8","0">> -> <<"[",":",":","1","]">>
      [] OTHER -> remoteAddr

\* The backend request has X-Forwarded-For with this one value, or has no
\* such header when the value is empty.
ForwardedForIs(value) ==
    LET out == call.backendReq.Header
    IN  IF value = <<>> THEN "X-Forwarded-For" \notin DOMAIN out
        ELSE "X-Forwarded-For" \in DOMAIN out /\ out["X-Forwarded-For"] = <<value>>

\* C24 as stated: without an inbound X-Forwarded-For the backend request has
\* X-Forwarded-For set to the remote address without its port, whatever else
\* the caller sent; with one, the header is forwarded unchanged.
C24_ForwardedForIsRemoteAddr ==
    call.op = "forwardHeaders" =>
        LET original == call.originalReq
        IN  IF Sent(original, "X-Forwarded-For")
            THEN call.backendReq.Header["X-Forwarded-For"]
                     = original.Header["X-Forwarded-For"]
            ELSE ForwardedForIs(HostOf(original.RemoteAddr))

\* C24: without an inbound X-Forwarded-For the backend request has
\* X-Forwarded-For set to the inbound X-Real-IP if the caller sent one, and
\* otherwise to the remote address without its port; with one, the first
\* value of the header is forwarded unchanged.
C24_ForwardedForIsClientIP ==
    call.op = "forwardHeaders" =>
        LET original == call.originalReq
        IN  IF Sent(original, "X-Forwarded-For")
            THEN ForwardedForIs(original.Header["X-Forwarded-For"][1])
            ELSE IF Sent(original, "X-Real-IP")
            THEN ForwardedForIs(original.Header["X-Real-IP"][1])
            ELSE ForwardedForIs(HostOf(original.RemoteAddr))

\* No X-Forwarded-For and no X-Real-IP: the remote address loses its port.
C24_Witness ==
    /\ call.op = "forwardHeaders"
    /\ DOMAIN call.originalReq.Header = {"Accept"}
    /\ call.originalReq.RemoteAddr = <<"1","9","2",".","1","6","8",".","1",".","1",":","1","2","3","4","5">>
    /\ call.backendReq.Header["X-Forwarded-For"] = <<<<"1","9","2",".","1","6","8",".","1",".","1">>>>

\* The context of the request was done before the handler had the whole
\* answer of the backend.
ContextDone ==
    /\ Routed
    /\ \/ backend.transport \in ContextDoFailures
       \/ backend.transport = "ok" /\ BodyReadFails(backend)

\* C26: when the context of a request is canceled or its deadline expires
\* before or during the backend call, the client returns a network error
\* (not a success, not an API error) and the handler answers 502 with an
\* error body and nothing of a partial backend answer.
C26_CancellationIsNetworkError ==
    ContextDone =>
        /\ TokenHandled =>
               LET fetched == GetTokens(cfg, backend)
               IN  /\ IsNetworkError(fetched.err)
                   /\ ~IsAPIError(fetched.err)
        /\ ProxyHandled =>
               LET endpoint == IF req.query # <<>> THEN req.path \o <<"?">> \o req.query
                               ELSE req.path
                   proxied == ProxyRequest(cfg, req, endpoint, backend)
               IN  ~proxied.ok /\ IsNetworkError(proxied.err)
        /\ resp.status = 502
        /\ resp.body.kind \in {"error", "text"}

\* C27: when GetTokens returns no error and a nil token list or a list
\* without items, the token filter handler does not panic and answers 200
\* with items an empty array, whatever the whitelist holds.
C27_EmptyFetchGivesEmptyItems ==
    (/\ call.op = "GetTokens"
     /\ call.err.isNil
     /\ call.resp.isNil \/ Len(call.resp.Items.elems) = 0) =>
        /\ resp # Panicked
        /\ resp.status = 200
        /\ resp.body.kind = "tokens"
        /\ resp.body.items = <<>>
        /\ ~resp.body.itemsNull

\* The backend list filtered against the whitelist value W, passed through
\* when W is empty.
FilterAgainst(W, items) ==
    IF Len(W) = 0 THEN items ELSE SelectSeq(items, LAMBDA t : t.Address \in Range(W))

\* A tokens request has been answered from a backend list with items.
FilterAnswered ==
    /\ "handler" \in DOMAIN goroutines
    /\ Handler.pc = "done"
    /\ TokenListReturned
    /\ Len(BackendItems) > 0

\* C28 as stated: the items of the response are the backend list filtered
\* against one whitelist value that the store held during the request.
C28_OneWhitelistState ==
    FilterAnswered =>
        \E W \in Handler.seen : resp.body.items = FilterAgainst(W, BackendItems)

\* The items of s at the positions where kept is TRUE, in order.
RECURSIVE Pick(_, _, _)
Pick(s, kept, i) ==
    IF i > Len(s) THEN <<>>
    ELSE (IF kept[i] THEN <<s[i]>> ELSE <<>>) \o Pick(s, kept, i + 1)

\* C28: every decision of the request is taken against one whitelist value
\* the store held during the request: the response is the whole backend list
\* if the store was empty at some moment, or else it keeps, in the backend's
\* order, only tokens whose address was in the whitelist at some moment and
\* drops only tokens whose address was absent at some moment; different
\* decisions may be taken against different whitelist values.
C28_EachDecisionOneWhitelistState ==
    FilterAnswered =>
        /\ resp.status = 200
        /\ \/ /\ resp.body.items = BackendItems
              /\ \E W \in Handler.seen : Len(W) = 0
           \/ /\ \E W \in Handler.seen : Len(W) > 0
              /\ \E kept \in [1..Len(BackendItems) -> BOOLEAN] :
                     /\ resp.body.items = Pick(BackendItems, kept, 1)
                     /\ \A i \in 1..Len(BackendItems) :
                            \E W \in Handler.seen :
                                kept[i] <=> BackendItems[i].Address \in Range(W)

\* A response that matches no single whitelist value of the request.
C28_Witness ==
    /\ FilterAnswered
    /\ Handler.mutations > 0
    /\ \A W \in Handler.seen : resp.body.items # FilterAgainst(W, BackendItems)

\* C29: in every state reached by LoadFromJSON, AddAddress, RemoveAddress
\* and Clear, GetTokenInfo(a) returns a record exactly when Contains(a).
C29_TokenInfoIffContains ==
    \A a \in AddressArgs :
        ~GetTokenInfo(Tokens, a).isNil <=> Contains(Addresses, a)

====
